---- MODULE Spec2Model ----
(***************************************************************************)
(* Lock session engine of fancylock: the LockoutManager, the X11Locker    *)
(* and WaylandLocker key handling and authentication paths, and the        *)
(* SecurePassword buffer.                                                  *)
(*                                                                         *)
(* Time is counted in whole seconds (time.Duration values are divided by   *)
(* time.Second); `now` is the reading of time.Now().                       *)
(***************************************************************************)
EXTENDS Integers, Sequences, FiniteSets, TLC

VARIABLES
    now,             \* the clock read by time.Now()
    config,          \* Configuration (the fields the engine reads)
    lockoutManager,  \* the LockoutManager of the session
    twin,            \* a second LockoutManager, built with the opposite DebugExit
    ret,             \* what the last call on the LockoutManager returned
    hist,            \* history of the calls made so far
    isLocked,        \* X11Locker.isLocked
    passwordBuf,     \* X11Locker.passwordBuf, a sequence of characters
    passwordDots,    \* X11Locker.passwordDots
    proc,            \* X11Locker: the goroutines and the Lock() call
    ev,              \* X11Locker: the last key press handled and what it did
    securePassword,  \* the SecurePassword and the arrays that have backed it
    wayland,         \* WaylandLocker: its fields, its goroutines, the compositor
    mediaPlayer,     \* MediaPlayer: its fields, its processes, the Start in progress
    program,         \* main: its position, the flags, the Configuration it builds
    simpleLocker,    \* the WaylandLocker of wayland.go: its buffer, its lock, its log
    inlineLocker,    \* the WaylandLocker that counts failures itself
    playback,        \* MediaPlayer: the goroutines and files of each monitor
    lockHelper       \* LockHelper: its MediaController and the MPRIS players

laterVars == <<inlineLocker, playback, lockHelper>>

x11Vars == <<isLocked, passwordBuf, passwordDots, proc, ev>>

sessionVars ==
    <<x11Vars, securePassword, wayland, mediaPlayer, program, simpleLocker,
      laterVars>>

vars == <<now, config, lockoutManager, twin, ret, hist, sessionVars>>

----------------------------------------------------------------------------
(* Bounds of the model *)

\* the clock stops advancing here
MaxTime == 40

\* how far the clock may advance between the two time.Now() reads of IsLockedOut
MaxDrift == 1

\* the clock of an X11Locker session stops advancing here (a debug lockout
\* of 5 seconds begins and expires before it)
X11MaxTime == 12

\* the longest password typed into the X11Locker
MaxPassword == 2

\* the longest password appended to a SecurePassword on its own
MaxLen == 66

\* shake animations counted as running at once (more are counted as this many)
MaxShakes == 1

\* the last clock reading of a WaylandLocker session
WlMaxTime == 7

\* the number of successful authentications in one WaylandLocker session
MaxUnlockers == 1

\* the most supported files the media directory holds
MaxPool == 2

\* the most monitors SetMonitors is given
MaxMonitors == 2

\* the most player processes launched in the life of one MediaPlayer
MaxProcs == 1

\* the longest password typed into the WaylandLocker of wayland.go
MaxSimplePassword == 3

\* the clock of the WaylandLocker that counts failures itself, seconds
InlineMaxTime == 65

\* the longest password typed into that WaylandLocker
MaxInlinePassword == 1

\* the countdown goroutines of that WaylandLocker alive at a time
MaxCountdowns == 2

\* the longest password typed when only the password field is followed
MaxTyped == 22

\* the MPRIS players on the session bus
MaxPlayers == 2

\* the monitors whose playback is followed goroutine by goroutine
MaxPlaybackMonitors == 2

\* the steps by which the clock advances between calls
TickSteps == {1, 5}

\* the steps by which the clock of the countdown goroutines advances
InlineTickSteps == {1, 30}

----------------------------------------------------------------------------
(* Program constants *)

\* failures that trigger a lockout
MaxAttempts == 3

\* lockout in debug mode, seconds
DebugLockout == 5

\* first lockout, seconds
BaseLockout == 30

\* ceiling of a lockout, seconds (10 * time.Minute)
LockoutCap == 600

\* the zero time.Time of a LockoutManager that never locked out
ZeroTime == 0

Min(a, b) == IF a < b THEN a ELSE b

----------------------------------------------------------------------------
(* LockoutManager *)

NewLockoutManager ==
    [failedAttempts |-> 0,
     lockoutUntil   |-> ZeroTime,
     lockoutActive  |-> FALSE,
     timerRunning   |-> FALSE]

\* LockoutDuration with the division by 3 forgotten
LockoutDurationPerAttempt(lm, debugExit) ==
    IF debugExit
    THEN DebugLockout
    ELSE IF ~lm.lockoutActive
         THEN BaseLockout
         ELSE Min(BaseLockout * lm.failedAttempts, LockoutCap)

\* the duration chosen once failedAttempts (already incremented) reached 3
LockoutDuration(lm, debugExit) ==
    IF debugExit
    THEN DebugLockout
    ELSE IF ~lm.lockoutActive
         THEN BaseLockout
         ELSE Min(BaseLockout * (lm.failedAttempts \div MaxAttempts), LockoutCap)

\* HandleFailedAttempt with the threshold, the counter reset and the debug
\* threshold as parameters (the code is the instance 3, TRUE, 3 below)
HandleFailedAttemptWith(lm, debugExit, t, threshold, resetCount, debugThreshold) ==
    LET counted == [lm EXCEPT !.failedAttempts = lm.failedAttempts + 1]
        limit   == IF debugExit THEN debugThreshold ELSE threshold
    IN
    IF counted.failedAttempts >= limit
    THEN LET d == LockoutDuration(counted, debugExit) IN
         [lm                |-> [counted EXCEPT
                                    !.lockoutUntil   = t + d,
                                    !.lockoutActive  = TRUE,
                                    !.failedAttempts =
                                        IF resetCount THEN 0 ELSE counted.failedAttempts],
          lockoutActive     |-> TRUE,
          lockoutDuration   |-> d,
          remainingAttempts |-> 0]
    ELSE [lm                |-> counted,
          lockoutActive     |-> FALSE,
          lockoutDuration   |-> 0,
          remainingAttempts |-> MaxAttempts - counted.failedAttempts]

\* HandleFailedAttempt locking out one failure too early
HandleFailedAttemptEarly(lm, debugExit, t) ==
    HandleFailedAttemptWith(lm, debugExit, t, MaxAttempts - 1, TRUE, MaxAttempts - 1)

\* HandleFailedAttempt leaving failedAttempts as it is when it locks out
HandleFailedAttemptKeepCount(lm, debugExit, t) ==
    HandleFailedAttemptWith(lm, debugExit, t, MaxAttempts, FALSE, MaxAttempts)

\* HandleFailedAttempt whose debug branch locks out on the first failure
HandleFailedAttemptDebugShortcut(lm, debugExit, t) ==
    HandleFailedAttemptWith(lm, debugExit, t, MaxAttempts, TRUE, 1)

\* HandleFailedAttempt at time t: the new manager and the three return values
HandleFailedAttempt(lm, debugExit, t) ==
    LET counted == [lm EXCEPT !.failedAttempts = lm.failedAttempts + 1] IN
    IF counted.failedAttempts >= MaxAttempts
    THEN LET d == LockoutDuration(counted, debugExit) IN
         [lm                |-> [counted EXCEPT !.lockoutUntil   = t + d,
                                                !.lockoutActive  = TRUE,
                                                !.failedAttempts = 0],
          lockoutActive     |-> TRUE,
          lockoutDuration   |-> d,
          remainingAttempts |-> 0]
    ELSE [lm                |-> counted,
          lockoutActive     |-> FALSE,
          lockoutDuration   |-> 0,
          remainingAttempts |-> MaxAttempts - counted.failedAttempts]

\* IsLockedOut still refusing at the deadline itself (!After for Before)
IsLockedOutInclusive(lm, t1, t2) ==
    IF lm.lockoutActive /\ t1 <= lm.lockoutUntil
    THEN [lm |-> lm, result |-> TRUE]
    ELSE IF lm.lockoutActive /\ t2 > lm.lockoutUntil
         THEN [lm |-> [lm EXCEPT !.lockoutActive = FALSE], result |-> FALSE]
         ELSE [lm |-> lm, result |-> FALSE]

\* IsLockedOut with Before and After exchanged
IsLockedOutInverted(lm, t1, t2) ==
    IF lm.lockoutActive /\ t1 > lm.lockoutUntil
    THEN [lm |-> lm, result |-> TRUE]
    ELSE IF lm.lockoutActive /\ t2 < lm.lockoutUntil
         THEN [lm |-> [lm EXCEPT !.lockoutActive = FALSE], result |-> FALSE]
         ELSE [lm |-> lm, result |-> FALSE]

\* IsLockedOut: t1 is the clock at the first time.Now(), t2 at the second
IsLockedOut(lm, t1, t2) ==
    IF lm.lockoutActive /\ t1 < lm.lockoutUntil
    THEN [lm |-> lm, result |-> TRUE]
    ELSE IF lm.lockoutActive /\ t2 > lm.lockoutUntil
         THEN [lm |-> [lm EXCEPT !.lockoutActive = FALSE], result |-> FALSE]
         ELSE [lm |-> lm, result |-> FALSE]

\* GetRemainingTime at time t
GetRemainingTime(lm, t) ==
    IF ~lm.lockoutActive
    THEN [lm |-> lm, result |-> 0]
    ELSE LET remaining == lm.lockoutUntil - t IN
         IF remaining < 0
         THEN [lm |-> [lm EXCEPT !.lockoutActive = FALSE], result |-> 0]
         ELSE [lm |-> lm, result |-> remaining]

ResetLockout(lm) ==
    [lm EXCEPT !.failedAttempts = 0, !.lockoutActive = FALSE, !.timerRunning = FALSE]

----------------------------------------------------------------------------
(* History of the calls, kept beside the program state *)

NoHist ==
    [since     |-> 0,      \* failures since the last ResetLockout or activation
     nth       |-> 0,      \* rank of the last failure in that count
     armed     |-> FALSE,  \* a lockout was activated and no ResetLockout followed
     lockouts  |-> 0,      \* lockouts since the last ResetLockout (stops at 3)
     prev      |-> 0,      \* duration of the lockout before the last one
     last      |-> 0,      \* duration of the last lockout
     afterExp  |-> FALSE]  \* the last lockout began after the previous had expired

FailureHist(h, lm, r, t) ==
    IF r.lockoutActive
    THEN [since    |-> 0,
          nth      |-> h.since + 1,
          armed    |-> TRUE,
          lockouts |-> Min(h.lockouts + 1, 3),
          prev     |-> h.last,
          last     |-> r.lockoutDuration,
          afterExp |-> h.armed /\ t >= lm.lockoutUntil]
    ELSE [h EXCEPT !.since = h.since + 1, !.nth = h.since + 1]

ResetHist(h) ==
    [NoHist EXCEPT !.nth = h.nth]


----------------------------------------------------------------------------
(* X11Locker (src/internal/x11.go): key presses, authenticate and the      *)
(* goroutines they start.  A call on the LockoutManager made by a          *)
(* goroutine is one step, interleaved with the key handler's.              *)

XK_Return == 65293
XK_KP_Enter == 65421
XK_BackSpace == 65288
XK_Escape == 65307
XK_q == 113
XK_Q == 81

\* the first and the last printable keysym
XK_space == 32
XK_asciitilde == 126

maxDots == 20

\* the reply carried no keysym, or GetKeyboardMapping failed
NoSymbol == 0

\* the keys pressed: the ones the handler names, the letter a, and Shift_L
KeySyms ==
    {XK_Return, XK_KP_Enter, XK_BackSpace, XK_Escape, XK_q, XK_Q, 97, 65505}

\* the password the authenticator accepts
CorrectPassword == <<97>>

\* the Message of a non-success AuthResult: the PAM transaction could not be
\* started, the authentication failed, the account check failed
FailureMessages ==
    {"Failed to start PAM transaction", "Authentication failed",
     "Account validation failed"}

\* PamAuthenticator.Authenticate: succeeds on the right password only, and may
\* fail on it too (here: the PAM transaction cannot be started)
Authenticate(password, backendOk) ==
    [Success |-> (password = CorrectPassword /\ backendOk),
     Message |-> IF ~backendOk
                 THEN "Failed to start PAM transaction"
                 ELSE IF password = CorrectPassword
                      THEN "Authentication successful"
                      ELSE "Authentication failed"]

\* the debug exit test with the configuration flag left out
DebugExitKeyAlways(cfg, keySym) ==
    keySym \in {XK_Escape, XK_q, XK_Q}

\* the debug exit test of handleKeyPress
DebugExitKey(cfg, keySym) ==
    cfg.DebugExit /\ keySym \in {XK_Escape, XK_q, XK_Q}

Printable(keySym) ==
    keySym >= XK_space /\ keySym <= XK_asciitilde

\* what is remembered of the key presses: key (the last key was Return or
\* KP_Enter: "enter"; Escape, q or Q: "exit"; another or none: "other"), inForce (it arrived before the deadline of a lockout), authCalled
\* and success (the authenticator was called, and accepted), streak (failed
\* authentications in a row, counted modulo 3), third (the last
\* authentication was the third failure of such a row), escape (the last key
\* was Escape), lockedOut (handleKeyPress found IsLockedOut() true), branch
\* (the branch authenticate took: "refused", "failed", "succeeded", or "none"
\* when the key press did not call authenticate); after Lock() and until the
\* first key press op is "Lock" and degraded tells whether the pre-lock
\* command, the pausing of media or mediaPlayer.Start() failed in it; message
\* is the Message authenticate has logged ("" when it logged none)
NoEvent ==
    [op |-> "none", key |-> "other", inForce |-> FALSE,
     authCalled |-> FALSE, success |-> FALSE, streak |-> 0, third |-> FALSE,
     escape |-> FALSE, lockedOut |-> FALSE, branch |-> "none",
     degraded |-> FALSE, message |-> ""]

NewX11Locker ==
    /\ isLocked = FALSE
    /\ passwordBuf = <<>>
    /\ passwordDots = <<>>
    /\ proc = [lockCalled |-> FALSE, shakes |-> 0, timer |-> "none",
               lockErr |-> FALSE, postLockRuns |-> 0, postLockLocked |-> FALSE]
    /\ ev = NoEvent

----------------------------------------------------------------------------
(* SecurePassword (src/internal/lock.go).  `data` is a Go slice: the array  *)
(* heap[arr], of which the first len bytes are the password and whose       *)
(* length is the capacity.  heap keeps every array that has backed the      *)
(* slice; live[k] counts the leading bytes of heap[k] that still belong to  *)
(* the password (the others were removed by RemoveLast or Clear).           *)

\* make([]byte, 0, 64)
InitialCap == 64

Zeros(n) == [i \in 1..n |-> 0]

\* the capacity append gives a full []byte of capacity cap (runtime growslice)
GrowCap(cap) ==
    IF cap < 256 THEN 2 * cap ELSE cap + (cap + 768) \div 4

NewSecurePassword ==
    [arr |-> 1, len |-> 0, heap |-> <<Zeros(InitialCap)>>, live |-> <<0>>]

SPCap(p) == Len(p.heap[p.arr])

\* p.data = append(p.data, char)
SPAppend(p, char) ==
    IF p.len < SPCap(p)
    THEN [p EXCEPT !.heap[p.arr][p.len + 1] = char,
                   !.len = p.len + 1,
                   !.live[p.arr] = p.len + 1]
    ELSE LET bigger == [i \in 1..GrowCap(SPCap(p)) |->
                           IF i <= p.len THEN p.heap[p.arr][i]
                           ELSE IF i = p.len + 1 THEN char ELSE 0]
         IN [arr  |-> Len(p.heap) + 1,
             len  |-> p.len + 1,
             heap |-> Append(p.heap, bigger),
             live |-> Append(p.live, p.len + 1)]

SPRemoveLast(p) ==
    IF p.len > 0
    THEN [p EXCEPT !.heap[p.arr][p.len] = 0,
                   !.len = p.len - 1,
                   !.live = [k \in DOMAIN p.live |-> Min(p.live[k], p.len - 1)]]
    ELSE p

SPClear(p) ==
    [p EXCEPT !.heap[p.arr] = [i \in DOMAIN p.heap[p.arr] |->
                                  IF i <= p.len THEN 0 ELSE p.heap[p.arr][i]],
              !.len = 0,
              !.live = [k \in DOMAIN p.live |-> 0]]

\* string(p.data)
SPString(p) == SubSeq(p.heap[p.arr], 1, p.len)

SPLength(p) == p.len

----------------------------------------------------------------------------
(* WaylandLocker (src/unnamed/part_006, the version that uses the           *)
(* LockoutManager).  `wayland` holds the fields of the locker the engine    *)
(* reads and writes, the position of each goroutine, and the state of the   *)
(* session lock in the compositor.                                          *)

\* capacity of redrawCh
RedrawCap == 1

\* the longest countdown StartCountdown shows, in seconds
CountdownCap == 600

\* key codes delivered in wl.KeyboardKeyEvent.Key: Escape, Backspace, Enter,
\* the `a` key, and a key HandleKeyboardKey has no case for
WlKeys == {1, 14, 28, 30, 57}

\* the rows of characters HandleKeyboardKey indexes by key code
RowQ == <<113, 119, 101, 114, 116, 121, 117, 105, 111, 112>>

RowA == <<97, 115, 100, 102, 103, 104, 106, 107, 108>>

RowZ == <<122, 120, 99, 118, 98, 110, 109>>

\* the character HandleKeyboardKey appends for a key code, 0 when it appends
\* none
WlKeyChar(key) ==
    IF key >= 2 /\ key <= 11
    THEN (IF key = 11 THEN 48 ELSE 49 + (key - 2))
    ELSE IF key >= 16 /\ key <= 25 THEN RowQ[key - 16 + 1]
    ELSE IF key >= 30 /\ key <= 38 THEN RowA[key - 30 + 1]
    ELSE IF key >= 44 /\ key <= 50 THEN RowZ[key - 44 + 1]
    ELSE 0

\* the goroutines started by authenticate on success, counted by position:
\* before mediaPlayer.Stop, before UnlockAndDestroy, before close(done), ended
NoUnlockers == [stopMedia |-> 0, unlock |-> 0, signal |-> 0, ended |-> 0]

Started(u) == u.stopMedia + u.unlock + u.signal + u.ended

\* main: "start" (Lock not called), "waiting" (Lock blocked on <-l.done),
\*       "failed" (Lock returned an error), "returned" (Lock returned nil and
\*       main returned), "panicked" (a goroutine panicked)
\* loop: the event loop goroutine of initWayland: "none", "select" (at its
\*       select), "dispatch" (in DisplayDispatch), "stopped"
\* redraw: the redraw goroutine of Lock: "none", "running", "stopped"
\* done: the channel: "open", "closed", "reclosed" (close was called on it
\*       when it was closed)
\* lock: l.lock: "nil", "live", "destroyed" (UnlockAndDestroy was called)
\* compositor: the session lock as the compositor sees it: "none",
\*       "pending", "locked", "finished", "unlocked"
\* countdownEnd: when the countdown goroutine leaves its loop, 0 without one
NewWaylandLocker ==
    [lockActive |-> FALSE, countdownActive |-> FALSE, done |-> "open",
     redrawCh |-> <<>>, lock |-> "nil", mediaRunning |-> FALSE,
     main |-> "start", loop |-> "none", redraw |-> "none",
     unlockers |-> NoUnlockers, countdownEnd |-> 0, compositor |-> "none"]

----------------------------------------------------------------------------
(* MediaPlayer (src/internal/media.go).  Media files are numbered 1, 2, ...    *)
(* in the order scanMediaFiles finds them; 0 stands for the empty path "".   *)
(* A player process is "live", "exited" (it ended by itself), "killed", or    *)
(* "reaped" (ended, and the goroutine that waited for it has cleaned up).    *)
(* The map currentlyPlaying is the set of its <<monitorIdx, path>> entries.  *)

\* the map m with m[key] = value
MapSet(m, key, value) == {e \in m : e[1] # key} \cup {<<key, value>>}

\* delete(m, key)
MapDelete(m, key) == {e \in m : e[1] # key}

\* what a call leaves in `last` when it returns
Returned(mp, op, wasRunning, kills, failed, closed, err) ==
    [op |-> op, wasRunning |-> wasRunning,
     kills |-> kills, failed |-> failed, closed |-> closed, err |-> err,
     found |-> mp.dir, launched |-> mp.start.launched,
     spawnFailed |-> (op = "Start" /\ mp.start.spawnFailed)]

\* the playlist loop's filter: the media files that no other monitor is
\* recorded as playing
AvailableMedia(mediaFiles, currentlyPlaying, monitorIdx) ==
    SelectSeq(mediaFiles,
              LAMBDA media :
                  ~\E entry \in currentlyPlaying :
                      entry[1] # monitorIdx /\ entry[2] = media)

\* the backfill loop: files are added back in scan order until minRequired
\* entries are reached
RECURSIVE Backfill(_, _, _)
Backfill(availableMedia, rest, minRequired) ==
    IF rest = <<>>
    THEN availableMedia
    ELSE IF \E i \in 1..Len(availableMedia) : availableMedia[i] = Head(rest)
         THEN Backfill(availableMedia, Tail(rest), minRequired)
         ELSE IF Len(availableMedia) + 1 >= minRequired
              THEN Append(availableMedia, Head(rest))
              ELSE Backfill(Append(availableMedia, Head(rest)), Tail(rest),
                            minRequired)

\* the media startPlaylistOnMonitor writes to the playlist of a monitor;
\* rand.Shuffle then permutes them, which changes neither their number nor
\* which files they are
Playlist(mediaFiles, currentlyPlaying, monitorIdx) ==
    LET availableMedia ==
            AvailableMedia(mediaFiles, currentlyPlaying, monitorIdx)
        minRequired == Len(mediaFiles) \div 2
    IN  IF Len(availableMedia) < minRequired /\ Len(mediaFiles) > 0
        THEN Backfill(availableMedia, mediaFiles, minRequired)
        ELSE availableMedia

\* the set of the elements of a sequence
Range(seq) == {seq[i] : i \in 1..Len(seq)}

\* the first n media files
Files(n) == [i \in 1..n |-> i]

\* a process that has ended: its playlist is followed no further
Ended(process, state) == [process EXCEPT !.state = state, !.playlist = <<>>]

\* the number of live player processes of monitor m
LiveOn(mp, m) ==
    Cardinality({p \in 1..Len(mp.procs) :
                    mp.procs[p].state = "live" /\ mp.procs[p].monitor = m})

\* the Kill calls of a Stop that fail: those on a process that has ended
KillFailures(mp) ==
    Cardinality({i \in 1..Len(mp.currentProcs) :
                    mp.procs[mp.currentProcs[i]].state # "live"})

\* a Stop that gives up at the first Kill that fails
StopUntilKillFails(mp) ==
    IF ~mp.running
    THEN [mp EXCEPT !.last = Returned(mp, "Stop", FALSE, 0, 0, FALSE, FALSE)]
    ELSE LET failing == {i \in 1..Len(mp.currentProcs) :
                             mp.procs[mp.currentProcs[i]].state # "live"}
         IN
         IF failing = {}
         THEN [mp EXCEPT
                  !.procs = [p \in DOMAIN mp.procs |->
                                IF p \in Range(mp.currentProcs)
                                THEN Ended(mp.procs[p], "killed")
                                ELSE mp.procs[p]],
                  !.currentProcs = <<>>,
                  !.running = FALSE,
                  !.last = Returned(mp, "Stop", TRUE, Len(mp.currentProcs), 0,
                                     TRUE, FALSE)]
         ELSE [mp EXCEPT
                  !.last = Returned(mp, "Stop", TRUE, 1, 1, FALSE, FALSE)]

\* a Stop without the test of mp.running
StopWithoutRunningTest(mp) ==
    [mp EXCEPT
        !.procs = [p \in DOMAIN mp.procs |->
                      IF p \in Range(mp.currentProcs)
                         /\ mp.procs[p].state = "live"
                      THEN Ended(mp.procs[p], "killed")
                      ELSE mp.procs[p]],
        !.currentProcs = <<>>,
        !.running = FALSE,
        !.panicked = (mp.stopChan = "closed"),
        !.stopChan = "open",
        !.last = Returned(mp, "Stop", mp.running, Len(mp.currentProcs),
                          KillFailures(mp), TRUE, FALSE)]

\* MediaPlayer.Stop, under mp.mutex from start to end: Process.Kill ends a
\* live process and fails on one that has ended; the failures are ignored
Stop(mp) ==
    IF ~mp.running
    THEN [mp EXCEPT !.last = Returned(mp, "Stop", FALSE, 0, 0, FALSE, FALSE)]
    ELSE [mp EXCEPT
             !.procs = [p \in DOMAIN mp.procs |->
                           IF p \in Range(mp.currentProcs)
                              /\ mp.procs[p].state = "live"
                           THEN Ended(mp.procs[p], "killed")
                           ELSE mp.procs[p]],
             !.currentProcs = <<>>,
             !.running = FALSE,
             !.panicked = (mp.stopChan = "closed"),
             !.stopChan = "open",
             !.last = Returned(mp, "Stop", TRUE, Len(mp.currentProcs),
                               KillFailures(mp), TRUE, FALSE)]

\* last: the call that returned last: op ("NewMediaPlayer", "Start", "Stop"),
\*       err (Start returned an error), found (the media files in the
\*       directory when it returned), launched (the processes Start
\*       launched and recorded), wasRunning, kills, failed and closed
\*       (Stop found the player running, the Kill calls it made, those that
\*       failed, and whether it closed stopChan)
\* start: the Start call in progress: pc ("idle", "scan", "playlist",
\*       "launch", "record"), idx (the monitor it is at), launched,
\*       spawnFailed (the launch of a player process has failed in it)
\* dir:  the number of supported files in config.MediaDir
NewMediaPlayer ==
    [running |-> FALSE, currentProcs |-> <<>>, mediaFiles |-> <<>>,
     monitors |-> 0, currentlyPlaying |-> {}, stopChan |-> "open",
     panicked |-> FALSE, dir |-> 0, procs |-> <<>>,
     start |-> [pc |-> "idle", idx |-> 0, launched |-> 0,
                spawnFailed |-> FALSE],
     playlists |-> {},
     last |-> [op |-> "NewMediaPlayer", wasRunning |-> FALSE, kills |-> 0,
               failed |-> 0, closed |-> FALSE, err |-> FALSE, found |-> 0,
               launched |-> 0, spawnFailed |-> FALSE]]

----------------------------------------------------------------------------
(* main (src/main.go).  A flag is TRUE when it is given on the command     *)
(* line.  A boolean entry of the configuration file is "absent", "true" or *)
(* "false".                                                                *)

\* DefaultConfig with the two flags main copies into it
DefaultConfig(lockScreen, debugExit) ==
    [LockScreen |-> lockScreen, DebugExit |-> debugExit,
     ImageDisplayTime |-> 30]

\* json.Unmarshal of a boolean entry into a field that holds `old`: an entry
\* that is absent leaves the field as it is
UnmarshalBool(entry, old) ==
    IF entry = "absent" THEN old ELSE entry = "true"

\* json.Unmarshal of a number entry, <<>> when the file has none
UnmarshalInt(entry, old) ==
    IF entry = <<>> THEN old ELSE entry[1]

\* validateConfig: the error it returns, "" for nil. mediaDirOk tells whether
\* the media directory exists or can be created; the list of extensions is
\* the default one
validateConfig(cfg, mediaDirOk) ==
    IF ~mediaDirOk THEN "media directory"
    ELSE IF cfg.ImageDisplayTime <= 0
    THEN "image display time must be positive"
    ELSE ""

\* LoadConfig(path, &config): the Configuration as the call leaves it and the
\* error returned, "" for nil. file is what the path holds: whether it can
\* be read, whether it is JSON, and its entries, each of the type of its
\* field. json.Unmarshal writes the entries of the file into the
\* Configuration; validateConfig runs after that
LoadConfig(cfg, file, mediaDirOk) ==
    IF ~file.readable
    THEN [config |-> cfg, err |-> "failed to read config file"]
    ELSE IF ~file.syntaxOk
    THEN [config |-> cfg, err |-> "failed to parse config file"]
    ELSE
    LET parsed ==
            [LockScreen |-> UnmarshalBool(file.lock_screen, cfg.LockScreen),
             DebugExit  |-> UnmarshalBool(file.debug_exit, cfg.DebugExit),
             ImageDisplayTime |-> UnmarshalInt(file.image_display_time,
                                               cfg.ImageDisplayTime)]
        invalid == validateConfig(parsed, mediaDirOk)
    IN  [config |-> parsed,
         err |-> IF invalid # "" THEN "invalid configuration" ELSE ""]

\* flag.NFlag() = 0
NoFlag(flags) ==
    ~(flags.c \/ flags.l \/ flags.h \/ flags.debugExit \/ flags.log \/ flags.v)

\* pc:   "start", "find", "load", "detect", "lock", "exit"
\* exit: how main ended: "usage", "version", "fatal" (log.Fatalf), "locked"
\*       (it called locker.Lock()), "nolock" (it returned without)
\* file: the lock_screen entry of the configuration file that was loaded
\* loadErr: the error LoadConfig returned, "" for nil or when it was not
\*       called
\* flagged: the default configuration with the flags applied, as main had it
\*       before the call of LoadConfig
NewProgram ==
    [pc |-> "start",
     flags |-> [c |-> FALSE, l |-> FALSE, h |-> FALSE, debugExit |-> FALSE,
                log |-> FALSE, v |-> FALSE],
     config |-> DefaultConfig(FALSE, FALSE),
     configPath |-> FALSE,
     file |-> "none",
     loadErr |-> "",
     flagged |-> DefaultConfig(FALSE, FALSE),
     server |-> "none",
     lockCalled |-> FALSE,
     exit |-> "none"]

----------------------------------------------------------------------------
(* The WaylandLocker of src/internal/wayland.go.  Its passwordBuf is a      *)
(* sequence of characters.  A log message is its format and the string     *)
(* that is formatted into it (empty when the format takes none).           *)

\* the log levels
LevelDebug == 0

\* the password the locker compares with: "test"
SimplePassword == <<116, 101, 115, 116>>

\* the keys pressed: Escape, '1', BackSpace, 'q', Enter, 'a', 's', space
SimpleKeys == {1, 2, 14, 16, 28, 30, 31, 57}

\* the character HandleKeyboardKey appends for a key, 0 when it appends none
SimpleKeyChar(key) ==
    IF key >= 2 /\ key <= 13 THEN 49 + (key - 2)
    ELSE IF key >= 16 /\ key <= 25 THEN 113 + (key - 16)
    ELSE IF key = 30 THEN 97
    ELSE IF key = 31 THEN 115
    ELSE 0

\* Debug(format, args...): the message is written when debug mode is on and
\* the level allows it
Debug(l, format, str) ==
    IF ~l.debugMode \/ l.currentLevel > LevelDebug
    THEN l
    ELSE [l EXCEPT !.log = Append(@, [format |-> format, str |-> str])]

\* authenticate of wayland.go
SimpleAuthenticate(l) ==
    LET l1 == Debug(l, "Authenticating with: %s", l.passwordBuf)
        l2 == IF l1.passwordBuf = SimplePassword
              THEN [Debug(l1, "Unlocked", <<>>) EXCEPT !.lock = "destroyed",
                                                       !.accepted = TRUE]
              ELSE Debug(l1, "Wrong password", <<>>)
    IN  [l2 EXCEPT !.passwordBuf = <<>>]

\* HandleKeyboardKey of wayland.go; log holds the messages of this call
SimpleHandleKeyboardKey(l, key, state) ==
    LET l0 == Debug([l EXCEPT !.log = <<>>], "KEY EVENT: key=%d state=%d", <<>>)
        l1 == IF key = 1
              THEN [l0 EXCEPT !.passwordBuf = <<>>]
              ELSE IF key = 28
              THEN SimpleAuthenticate(Debug(l0, "ENTER pressed, authenticating...",
                                            <<>>))
              ELSE IF key = 14
              THEN (IF Len(l0.passwordBuf) > 0
                    THEN [l0 EXCEPT !.passwordBuf =
                             SubSeq(@, 1, Len(l0.passwordBuf) - 1)]
                    ELSE l0)
              ELSE IF SimpleKeyChar(key) # 0
              THEN [l0 EXCEPT !.passwordBuf = Append(@, SimpleKeyChar(key))]
              ELSE l0
    IN  IF state # 1 THEN l0 ELSE Debug(l1, "Buffer: %s", l1.passwordBuf)

\* NewWaylandLocker of wayland.go, which calls InitLogger(LevelDebug, true).
\* lock is l.lock ("nil", "live", or "destroyed" once UnlockAndDestroy was
\* called on it), timer the goroutine Lock() starts ("none", "sleeping",
\* "done"), accepted tells whether authenticate has accepted a password
NewSimpleLocker ==
    [passwordBuf |-> <<>>, lock |-> "nil", debugMode |-> TRUE,
     currentLevel |-> LevelDebug, log |-> <<>>, timer |-> "none",
     accepted |-> FALSE]

\* NewWaylandLocker of the version with the lockout in authenticate. length is securePassword.Length(), countdowns the
\* goroutines of StartCountdown that have not ended, each with the duration
\* it was started with and its loop variable i, done the channel ("open",
\* "closing" once the goroutine of a successful authenticate runs, "closed")
NewInlineLocker ==
    [failedAttempts |-> 0, lockoutActive |-> FALSE, lockoutUntil |-> ZeroTime,
     countdownActive |-> FALSE, countdowns |-> <<>>, length |-> 0,
     done |-> "open"]

\* A MediaPlayer whose Start has not been called, seen monitor by monitor.
\* started: Start has been called and has set running
\* pc: the call of startPlaylistOnMonitor for the monitor: "none", "temp"
\*       (the playlist file is created), "written", "spawned", "returned"
\*       (it returned nil), "failed" (it returned an error)
\* file: the temporary playlist file: "none", "present", "removed"
\* process: the player process: "none", "live", "exited", "killed"
\* listed: the process is in currentProcs
\* watcher: the goroutine that waits for the process: "none", "sleep",
\*       "wait" (in cmd.Wait), "cleanup" (it has closed stopCheck and removed
\*       the files), "done"
\* poller: the goroutine with the ticker: "none", "select", "write" (it has
\*       a file name from getCurrentFile and is about to take the mutex),
\*       "stopped"
\* entry: currentlyPlaying[monitorIdx]: "absent", "" or "path"
NewPlayback ==
    [running |-> FALSE, started |-> FALSE,
     monitor |-> [m \in 1..MaxPlaybackMonitors |->
                     [pc |-> "none", file |-> "none", process |-> "none",
                      listed |-> FALSE, watcher |-> "none", poller |-> "none",
                      entry |-> "absent"]]]

\* The session before NewLockHelper is called.
\* phase: "none", "created" (NewLockHelper has returned), "locked"
\*       (PauseMediaIfEnabled has been called), "unlocked"
\*       (UnpauseMediaIfEnabled has been called)
\* mediaCtrl: the LockHelper has a MediaController
\* status: the PlaybackStatus of each MPRIS player
\* paused, played: the players that were sent Pause by PauseAllMedia and
\*       Play by UnpauseAllMedia
NoLockHelper ==
    [phase |-> "none",
     config |-> [LockPauseMedia |-> FALSE, UnlockUnpauseMedia |-> FALSE],
     mediaCtrl |-> FALSE,
     status |-> [p \in 1..MaxPlayers |-> "Stopped"],
     paused |-> {}, played |-> {}]

----------------------------------------------------------------------------
(* Calls on one LockoutManager, with time passing between them *)

InitLockout ==
    /\ now = 1
    /\ config \in [DebugExit : BOOLEAN]
    /\ lockoutManager = NewLockoutManager
    /\ twin = NewLockoutManager
    /\ ret = [op |-> "NewLockoutManager"]
    /\ hist = NoHist

Init ==
    /\ InitLockout
    /\ NewX11Locker
    /\ securePassword = NewSecurePassword
    /\ wayland = NewWaylandLocker
    /\ mediaPlayer = NewMediaPlayer
    /\ program = NewProgram
    /\ simpleLocker = NewSimpleLocker
    /\ inlineLocker = NewInlineLocker
    /\ playback = NewPlayback
    /\ lockHelper = NoLockHelper

Tick ==
    \E d \in TickSteps :
        /\ now + d <= MaxTime
        /\ now' = now + d
        /\ UNCHANGED <<config, lockoutManager, twin, ret, hist, sessionVars>>

CallHandleFailedAttempt ==
    LET r == HandleFailedAttempt(lockoutManager, config.DebugExit, now) IN
    /\ lockoutManager' = r.lm
    /\ ret' = [op                |-> "HandleFailedAttempt",
               lockoutActive     |-> r.lockoutActive,
               lockoutDuration   |-> r.lockoutDuration,
               remainingAttempts |-> r.remainingAttempts]
    /\ hist' = FailureHist(hist, lockoutManager, r, now)
    /\ UNCHANGED <<now, config, twin, sessionVars>>

CallIsLockedOut ==
    \E e \in 0..MaxDrift :
        LET r == IsLockedOut(lockoutManager, now, now + e) IN
        /\ now + e <= MaxTime
        /\ now' = now + e
        /\ lockoutManager' = r.lm
        /\ ret' = [op |-> "IsLockedOut", result |-> r.result, at |-> now]
        /\ UNCHANGED <<config, twin, hist, sessionVars>>

CallGetRemainingTime ==
    LET r == GetRemainingTime(lockoutManager, now) IN
    /\ lockoutManager' = r.lm
    /\ ret' = [op |-> "GetRemainingTime", result |-> r.result, at |-> now]
    /\ UNCHANGED <<now, config, twin, hist, sessionVars>>

CallResetLockout ==
    /\ lockoutManager' = ResetLockout(lockoutManager)
    /\ ret' = [op |-> "ResetLockout"]
    /\ hist' = ResetHist(hist)
    /\ UNCHANGED <<now, config, twin, sessionVars>>

Next ==
    \/ Tick
    \/ CallHandleFailedAttempt
    \/ CallIsLockedOut
    \/ CallGetRemainingTime
    \/ CallResetLockout

Spec == Init /\ [][Next]_vars

----------------------------------------------------------------------------
(* The same HandleFailedAttempt and ResetLockout calls made on two          *)
(* LockoutManagers that differ in config.DebugExit only                     *)

BothHandleFailedAttempt ==
    LET r == HandleFailedAttempt(lockoutManager, config.DebugExit, now)
        q == HandleFailedAttempt(twin, ~config.DebugExit, now)
    IN
    /\ lockoutManager' = r.lm
    /\ twin' = q.lm
    /\ ret' = [op                |-> "HandleFailedAttempt",
               lockoutActive     |-> r.lockoutActive,
               lockoutDuration   |-> r.lockoutDuration,
               remainingAttempts |-> r.remainingAttempts,
               twinActive        |-> q.lockoutActive,
               twinDuration      |-> q.lockoutDuration,
               twinRemaining     |-> q.remainingAttempts]
    /\ hist' = FailureHist(hist, lockoutManager, r, now)
    /\ UNCHANGED <<now, config, sessionVars>>

BothResetLockout ==
    /\ lockoutManager' = ResetLockout(lockoutManager)
    /\ twin' = ResetLockout(twin)
    /\ ret' = [op |-> "ResetLockout"]
    /\ hist' = ResetHist(hist)
    /\ UNCHANGED <<now, config, sessionVars>>

NextShape ==
    \/ Tick
    \/ BothHandleFailedAttempt
    \/ BothResetLockout

SpecShape == Init /\ [][NextShape]_vars

----------------------------------------------------------------------------
(* Steps of the X11Locker *)

\* the X11Locker as one value
X11State ==
    [now |-> now, lm |-> lockoutManager, isLocked |-> isLocked,
     passwordBuf |-> passwordBuf, passwordDots |-> passwordDots,
     proc |-> proc, ev |-> ev]

\* `go l.shakePasswordField()`
GoShake(s) ==
    [s EXCEPT !.proc.shakes = Min(s.proc.shakes + 1, MaxShakes)]

\* drawLockoutMessage: `draw` tells how far it gets before an error return:
\* "none" (detectMonitors fails), "time" (it formats the remaining time and
\* then fails), "full" (it draws and starts the countdown goroutine)
DrawLockoutMessage(s, draw) ==
    IF draw = "none"
    THEN s
    ELSE LET timed == [s EXCEPT !.lm = GetRemainingTime(s.lm, s.now).lm] IN
         IF draw = "time" \/ timed.lm.timerRunning
         THEN timed
         ELSE [timed EXCEPT !.lm.timerRunning = TRUE, !.proc.timer = "check"]

\* an authenticate that does not count a failure of the PAM backend
X11AuthResultBackendExempt(after, cfg, result, draw) ==
    LET called == [after EXCEPT !.ev.authCalled = TRUE,
                                !.ev.success = result.Success,
                                !.ev.message = result.Message]
    IN
    IF result.Success
    THEN [called EXCEPT !.isLocked = FALSE,
                        !.lm = ResetLockout(called.lm),
                        !.ev.streak = 0,
                        !.ev.third = FALSE,
                        !.ev.branch = "succeeded"]
    ELSE IF result.Message = "Failed to start PAM transaction"
         THEN GoShake([called EXCEPT !.passwordBuf = <<>>,
                                     !.ev.branch = "failed"])
         ELSE LET r      == HandleFailedAttempt(called.lm, cfg.DebugExit, called.now)
                  failed == [called EXCEPT
                                !.lm = r.lm,
                                !.passwordBuf = <<>>,
                                !.ev.streak = (called.ev.streak + 1) % 3,
                                !.ev.third = (called.ev.streak = 2),
                                !.ev.branch = "failed"]
              IN
              GoShake(IF r.lockoutActive
                      THEN DrawLockoutMessage(failed, draw)
                      ELSE failed)

\* X11Locker.authenticate from the return of authenticator.Authenticate on:
\* `result` is the AuthResult, whose Message is logged
X11AuthResult(after, cfg, result, draw) ==
    LET called == [after EXCEPT !.ev.authCalled = TRUE,
                                !.ev.success = result.Success,
                                !.ev.message = result.Message]
    IN
    IF result.Success
    THEN [called EXCEPT !.isLocked = FALSE,
                        !.lm = ResetLockout(called.lm),
                        !.ev.streak = 0,
                        !.ev.third = FALSE,
                        !.ev.branch = "succeeded"]
    ELSE LET r      == HandleFailedAttempt(called.lm, cfg.DebugExit, called.now)
             failed == [called EXCEPT
                           !.lm = r.lm,
                           !.passwordBuf = <<>>,
                           !.ev.streak = (called.ev.streak + 1) % 3,
                           !.ev.third = (called.ev.streak = 2),
                           !.ev.branch = "failed"]
         IN
         GoShake(IF r.lockoutActive
                 THEN DrawLockoutMessage(failed, draw)
                 ELSE failed)

\* X11Locker.authenticate entered at s.now; the authenticator takes e seconds
X11Authenticate(s, cfg, e, backendOk, draw) ==
    LET lo == IsLockedOut(s.lm, s.now, s.now) IN
    IF lo.result
    THEN GoShake([s EXCEPT !.lm = GetRemainingTime(lo.lm, s.now).lm,
                           !.passwordBuf = <<>>,
                           !.ev.branch = "refused"])
    ELSE X11AuthResult([s EXCEPT !.lm = lo.lm, !.now = s.now + e], cfg,
                       Authenticate(s.passwordBuf, backendOk), draw)

\* a lockout branch of handleKeyPress that still edits the dots on BackSpace
X11LockoutKeyWithBackSpace(entry, cfg, keySym) ==
    IF keySym = NoSymbol
    THEN entry
    ELSE IF DebugExitKey(cfg, keySym)
         THEN [entry EXCEPT !.isLocked = FALSE]
         ELSE IF keySym = XK_Escape
              THEN [entry EXCEPT !.passwordBuf = <<>>, !.passwordDots = <<>>]
              ELSE IF keySym = XK_BackSpace
                   THEN [entry EXCEPT !.passwordDots = <<>>]
                   ELSE entry

\* the lockout branch of handleKeyPress: what it does with the key once
\* IsLockedOut() has returned true
X11LockoutKey(entry, cfg, keySym) ==
    IF keySym = NoSymbol
    THEN entry
    ELSE IF DebugExitKey(cfg, keySym)
         THEN [entry EXCEPT !.isLocked = FALSE]
         ELSE IF keySym = XK_Escape
              THEN [entry EXCEPT !.passwordBuf = <<>>, !.passwordDots = <<>>]
              ELSE entry

\* X11Locker.handleKeyPress for the key keySym; the clock advances by e1
\* inside the first IsLockedOut
X11HandleKeyPress(s, cfg, keySym, e1, e2, backendOk, draw) ==
    LET lo    == IsLockedOut(s.lm, s.now, s.now + e1)
        entry == [s EXCEPT
                     !.lm = lo.lm,
                     !.now = s.now + e1,
                     !.ev = [op |-> "handleKeyPress",
                             key |-> IF keySym \in {XK_Return, XK_KP_Enter}
                                     THEN "enter"
                                     ELSE IF keySym \in {XK_Escape, XK_q, XK_Q}
                                          THEN "exit" ELSE "other",
                             inForce |-> (s.ev.third /\ s.now < s.lm.lockoutUntil),
                             authCalled |-> FALSE, success |-> FALSE,
                             streak |-> s.ev.streak, third |-> s.ev.third,
                             escape |-> (keySym = XK_Escape),
                             lockedOut |-> lo.result,
                             branch |-> "none",
                             degraded |-> FALSE,
                             message |-> ""]]
    IN
    IF lo.result
    THEN X11LockoutKey(entry, cfg, keySym)
    ELSE IF keySym = NoSymbol
         THEN entry
         ELSE IF DebugExitKey(cfg, keySym)
              THEN [entry EXCEPT !.isLocked = FALSE]
              ELSE IF keySym \in {XK_Return, XK_KP_Enter}
                   THEN X11Authenticate(entry, cfg, e2, backendOk, draw)
                   ELSE IF keySym = XK_BackSpace
                        THEN IF Len(entry.passwordBuf) > 0
                             THEN [entry EXCEPT
                                      !.passwordBuf =
                                          SubSeq(entry.passwordBuf, 1,
                                                 Len(entry.passwordBuf) - 1),
                                      !.passwordDots =
                                          IF Len(entry.passwordDots) > 0
                                          THEN SubSeq(entry.passwordDots, 1,
                                                      Len(entry.passwordDots) - 1)
                                          ELSE entry.passwordDots]
                             ELSE entry
                        ELSE IF keySym = XK_Escape
                             THEN [entry EXCEPT !.passwordBuf = <<>>,
                                                !.passwordDots = <<>>]
                             ELSE IF Printable(keySym)
                                  THEN [entry EXCEPT
                                           !.passwordBuf = Append(entry.passwordBuf, keySym),
                                           !.passwordDots =
                                               IF Len(entry.passwordDots) < maxDots
                                               THEN Append(entry.passwordDots, TRUE)
                                               ELSE entry.passwordDots]
                                  ELSE entry

\* the state after a step of the X11Locker
X11Becomes(s) ==
    /\ now' = s.now
    /\ lockoutManager' = s.lm
    /\ isLocked' = s.isLocked
    /\ passwordBuf' = s.passwordBuf
    /\ passwordDots' = s.passwordDots
    /\ proc' = s.proc
    /\ ev' = s.ev
    /\ UNCHANGED <<config, twin, ret, hist, securePassword, wayland,
                   mediaPlayer, program,
                   simpleLocker, laterVars>>

\* LockHelper.RunPostLockCommand, called by the X11Locker: postLockRuns
\* counts the calls and postLockLocked tells whether one of them was made
\* while isLocked was true
RunPostLockCommand(s) ==
    [s EXCEPT !.proc.postLockRuns = @ + 1,
              !.proc.postLockLocked = @ \/ s.isLocked]

\* a Lock that gives up with an error when mediaPlayer.Start() fails
X11LockCallFailsOnStart(s, preLockOk, pauseOk, startOk) ==
    IF s.isLocked
    THEN [s EXCEPT !.proc.lockCalled = TRUE]
    ELSE IF ~startOk
         THEN [s EXCEPT !.proc.lockCalled = TRUE, !.proc.lockErr = TRUE]
         ELSE RunPostLockCommand(
                  [s EXCEPT !.isLocked = TRUE,
                            !.proc.lockCalled = TRUE,
                            !.ev = [NoEvent EXCEPT
                                       !.op = "Lock",
                                       !.degraded = ~(preLockOk /\ pauseOk)]])

\* X11Locker.Lock: the pre-lock command (preLockOk), the pausing of media
\* (pauseOk) and mediaPlayer.Start() (startOk) may fail; each failure is
\* logged and Lock goes on.  lockErr tells whether Lock returned an error.
X11LockCall(s, preLockOk, pauseOk, startOk) ==
    IF s.isLocked
    THEN [s EXCEPT !.proc.lockCalled = TRUE]
    ELSE RunPostLockCommand(
             [s EXCEPT !.isLocked = TRUE,
                       !.proc.lockCalled = TRUE,
                       !.ev = [NoEvent EXCEPT
                                  !.op = "Lock",
                                  !.degraded =
                                      ~(preLockOk /\ pauseOk /\ startOk)]])

\* X11Locker.Lock, called once by main
X11Lock ==
    \E preLockOk, pauseOk, startOk \in BOOLEAN :
        /\ ~proc.lockCalled
        /\ X11Becomes(X11LockCall(X11State, preLockOk, pauseOk, startOk))

\* a key press delivered while the session is locked
X11KeyPress ==
    \E keySym \in KeySyms \cup {NoSymbol}, e1 \in 0..MaxDrift :
    \E e2 \in IF keySym \in {XK_Return, XK_KP_Enter} THEN 0..MaxDrift ELSE {0},
       backendOk \in IF keySym \in {XK_Return, XK_KP_Enter} THEN BOOLEAN ELSE {TRUE},
       draw \in IF keySym \in {XK_Return, XK_KP_Enter}
                THEN {"none", "time", "full"} ELSE {"none"} :
        /\ isLocked
        /\ now + e1 + e2 <= X11MaxTime
        /\ Printable(keySym) => Len(passwordBuf) < MaxPassword
        /\ X11Becomes(X11HandleKeyPress(X11State, config, keySym, e1, e2,
                                        backendOk, draw))

\* the end of a shake animation: shakePasswordField empties passwordDots
X11ShakeEnds ==
    /\ proc.shakes > 0
    /\ X11Becomes([X11State EXCEPT !.proc.shakes = proc.shakes - 1,
                                   !.passwordDots = <<>>])

\* the countdown goroutine evaluates its loop condition
X11TimerCheck ==
    \E e \in 0..MaxDrift :
        LET lo == IsLockedOut(lockoutManager, now, now + e) IN
        /\ proc.timer = "check"
        /\ now + e <= X11MaxTime
        /\ X11Becomes([X11State EXCEPT
                          !.lm = lo.lm,
                          !.now = now + e,
                          !.proc.timer = IF lo.result /\ isLocked
                                         THEN "wait" ELSE "stop"])

\* the countdown goroutine redraws the message on a tick of its ticker
X11TimerDraw ==
    \E draw \in {"none", "time", "full"} :
        /\ proc.timer = "wait"
        /\ X11Becomes([DrawLockoutMessage(X11State, draw) EXCEPT
                          !.proc.timer = "check"])

\* the countdown goroutine leaves its loop
X11TimerStop ==
    /\ proc.timer = "stop"
    /\ X11Becomes([X11State EXCEPT !.lm.timerRunning = FALSE,
                                   !.proc.timer = "none"])

X11Tick ==
    \E d \in TickSteps :
        /\ proc.lockCalled
        /\ now + d <= X11MaxTime
        /\ X11Becomes([X11State EXCEPT !.now = now + d])

NextX11 ==
    \/ X11Lock
    \/ X11KeyPress
    \/ X11ShakeEnds
    \/ X11TimerCheck
    \/ X11TimerDraw
    \/ X11TimerStop
    \/ X11Tick

SpecX11 == Init /\ [][NextX11]_vars

\* the keys that edit the password: the letter a, BackSpace and Escape
EditKeySyms == {97, XK_BackSpace, XK_Escape}

\* a key press that edits the password, delivered while the session is locked
X11EditKeyPress ==
    \E keySym \in EditKeySyms :
        /\ isLocked
        /\ Printable(keySym) => Len(passwordBuf) < MaxTyped
        /\ X11Becomes(X11HandleKeyPress(X11State, config, keySym, 0, 0, TRUE,
                                        "none"))

NextX11Edit ==
    \/ X11Lock
    \/ X11EditKeyPress

SpecX11Edit == Init /\ [][NextX11Edit]_vars

----------------------------------------------------------------------------
(* Calls on one SecurePassword *)

CallAppend ==
    /\ securePassword.len < MaxLen
    /\ securePassword' = SPAppend(securePassword, 97)
    /\ UNCHANGED <<now, config, lockoutManager, twin, ret, hist, x11Vars,
                   wayland, mediaPlayer, program,
                   simpleLocker, laterVars>>

CallRemoveLast ==
    /\ securePassword' = SPRemoveLast(securePassword)
    /\ UNCHANGED <<now, config, lockoutManager, twin, ret, hist, x11Vars,
                   wayland, mediaPlayer, program,
                   simpleLocker, laterVars>>

CallClear ==
    /\ securePassword' = SPClear(securePassword)
    /\ UNCHANGED <<now, config, lockoutManager, twin, ret, hist, x11Vars,
                   wayland, mediaPlayer, program,
                   simpleLocker, laterVars>>

NextSecurePassword ==
    \/ CallAppend
    \/ CallRemoveLast
    \/ CallClear

SpecSecurePassword == Init /\ [][NextSecurePassword]_vars

----------------------------------------------------------------------------
(* Steps of the WaylandLocker *)

\* the WaylandLocker as one value; auth tells whether the handler that made
\* it has called authenticator.Authenticate
WlState ==
    [now |-> now, lm |-> lockoutManager, sp |-> securePassword, w |-> wayland,
     auth |-> FALSE]

\* close(l.done): closing a closed channel panics
CloseDone(w) ==
    IF w.done = "closed"
    THEN [w EXCEPT !.main = "panicked", !.done = "reclosed"]
    ELSE [w EXCEPT !.done = "closed"]

\* MediaPlayer.Stop
MediaStop(w) == [w EXCEPT !.mediaRunning = FALSE]

\* l.lock.UnlockAndDestroy(): the compositor releases the session; on a lock
\* that is already destroyed the library may panic (libPanics)
UnlockAndDestroy(w, libPanics) ==
    IF w.lock = "destroyed" /\ libPanics
    THEN [w EXCEPT !.main = "panicked"]
    ELSE [w EXCEPT !.lock = "destroyed",
                   !.compositor = IF @ \in {"pending", "locked"}
                                  THEN "unlocked" ELSE @]

\* the non-blocking send on redrawCh
SendRedraw(w, count) ==
    IF Len(w.redrawCh) < RedrawCap
    THEN [w EXCEPT !.redrawCh = Append(@, count)]
    ELSE w

\* StartCountdown: the flag is set at once, the goroutine it starts clears it
\* after `duration` sleeps of one second
StartCountdown(w, duration, t) ==
    [w EXCEPT !.countdownActive = TRUE,
              !.countdownEnd = t + Min(duration, CountdownCap)]

\* the debug exit of HandleKeyboardKey: UnlockAndDestroy, then close(done)
WlDebugExit(w, libPanics) ==
    LET u == IF w.lock # "nil" THEN UnlockAndDestroy(w, libPanics) ELSE w IN
    IF u.main = "panicked" THEN u ELSE CloseDone(u)

\* WaylandLocker.authenticate.  e1 is the time that passes between the two
\* clock reads of IsLockedOut, e2 the time the shake animation takes.
WlAuthenticate(s, cfg, e1, e2, backendOk) ==
    LET lo == IsLockedOut(s.lm, s.now, s.now + e1)
        t1 == s.now + e1
        t2 == t1 + e2
        result == Authenticate(SPString(s.sp), backendOk)
        r == HandleFailedAttempt(lo.lm, cfg.DebugExit, t1)
    IN  IF lo.result
        THEN [s EXCEPT !.now = t1,
                       !.lm = GetRemainingTime(lo.lm, t1).lm,
                       !.sp = SPClear(s.sp)]
        ELSE IF result.Success
        THEN [s EXCEPT !.now = t1,
                       !.auth = TRUE,
                       !.lm = ResetLockout(lo.lm),
                       !.sp = SPClear(s.sp),
                       !.w = SendRedraw([s.w EXCEPT
                                            !.unlockers.stopMedia = @ + 1], 0)]
        ELSE [s EXCEPT !.now = t2,
                       !.auth = TRUE,
                       !.lm = r.lm,
                       !.sp = SPClear(s.sp),
                       !.w = SendRedraw(IF r.lockoutActive
                                        THEN StartCountdown(s.w,
                                                 r.lockoutDuration, t2)
                                        ELSE s.w, 0)]

\* WaylandLocker.HandleKeyboardKey
WlHandleKeyboardKey(s, cfg, key, state, e1, e2, backendOk, libPanics) ==
    IF state # 1 THEN s
    ELSE IF s.w.countdownActive
    THEN (IF key = 1 /\ cfg.DebugExit
          THEN [s EXCEPT !.w = WlDebugExit(s.w, libPanics)]
          ELSE s)
    ELSE IF key = 1
    THEN (IF cfg.DebugExit
          THEN [s EXCEPT !.sp = SPClear(s.sp),
                         !.w = WlDebugExit(s.w, libPanics)]
          ELSE [s EXCEPT !.sp = SPClear(s.sp),
                         !.w = SendRedraw(s.w, SPLength(SPClear(s.sp)))])
    ELSE IF key \in {28, 96, 108, 65}
    THEN WlAuthenticate(s, cfg, e1, e2, backendOk)
    ELSE IF key = 14
    THEN [s EXCEPT !.sp = SPRemoveLast(s.sp),
                   !.w = SendRedraw(s.w, SPLength(SPRemoveLast(s.sp)))]
    ELSE IF WlKeyChar(key) # 0
    THEN [s EXCEPT !.sp = SPAppend(s.sp, WlKeyChar(key)),
                   !.w = SendRedraw(s.w,
                                    SPLength(SPAppend(s.sp, WlKeyChar(key))))]
    ELSE s

\* the state after a step of the WaylandLocker
WlBecomes(s) ==
    /\ now' = s.now
    /\ lockoutManager' = s.lm
    /\ securePassword' = s.sp
    /\ wayland' = s.w
    /\ UNCHANGED <<config, twin, ret, hist, x11Vars, mediaPlayer, program,
                   simpleLocker, laterVars>>

\* the process runs: Lock() is blocked on <-l.done
WlRunning == wayland.main = "waiting"

\* WaylandLocker.Lock up to its wait on done: the pre-lock command
\* (preLockOk) and the pausing of media (pauseOk) may fail, which is logged;
\* initWayland may fail (initOk), which Lock returns; mediaPlayer.Start may
\* fail (startOk), which is logged
WlLockCall(w, preLockOk, pauseOk, initOk, startOk) ==
    IF initOk
    THEN [w EXCEPT !.lockActive = TRUE,
                   !.lock = "live",
                   !.compositor = "pending",
                   !.loop = "select",
                   !.mediaRunning = startOk,
                   !.redraw = "running",
                   !.main = "waiting"]
    ELSE [w EXCEPT !.lockActive = TRUE,
                   !.main = "failed"]

\* WaylandLocker.Lock, called once by main
WlLock ==
    \E preLockOk, pauseOk, initOk \in BOOLEAN :
    \E startOk \in IF initOk THEN BOOLEAN ELSE {FALSE} :
        /\ wayland.main = "start"
        /\ WlBecomes([WlState EXCEPT !.w =
               WlLockCall(wayland, preLockOk, pauseOk, initOk, startOk)])

\* Lock returns nil once done is closed, and main returns: the process ends
WlLockReturns ==
    /\ WlRunning
    /\ wayland.done = "closed"
    /\ WlBecomes([WlState EXCEPT !.w.main = "returned"])

\* the event loop goroutine at its select: it returns when done is closed and
\* calls DisplayDispatch otherwise
WlLoopSelect ==
    /\ WlRunning
    /\ wayland.loop = "select"
    /\ WlBecomes([WlState EXCEPT !.w.loop = IF wayland.done = "closed"
                                            THEN "stopped" ELSE "dispatch"])

\* DisplayDispatch delivers a key event to HandleKeyboardKey
WlKeyboardKey ==
    \E key \in WlKeys, state \in {0, 1}, libPanics \in BOOLEAN :
    \E e1 \in IF key = 28 /\ state = 1 THEN 0..MaxDrift ELSE {0},
       e2 \in IF key = 28 /\ state = 1 THEN 0..MaxDrift ELSE {0},
       backendOk \in IF key = 28 /\ state = 1 THEN BOOLEAN ELSE {TRUE} :
        LET s == WlHandleKeyboardKey(WlState, config, key, state, e1, e2,
                                     backendOk, libPanics) IN
        /\ WlRunning
        /\ wayland.loop = "dispatch"
        /\ s.now <= WlMaxTime
        /\ s.sp.len <= MaxPassword
        /\ Started(s.w.unlockers) <= MaxUnlockers
        /\ WlBecomes([s EXCEPT !.w.loop = "select"])

\* DisplayDispatch delivers the locked event to HandleSessionLockLocked
WlSessionLockLocked ==
    /\ WlRunning
    /\ wayland.loop = "dispatch"
    /\ wayland.compositor = "pending"
    /\ WlBecomes([WlState EXCEPT !.w.lockActive = TRUE,
                                 !.w.compositor = "locked",
                                 !.w.loop = "select"])

\* DisplayDispatch delivers the finished event to HandleSessionLockFinished
WlSessionLockFinished ==
    /\ WlRunning
    /\ wayland.loop = "dispatch"
    /\ wayland.compositor \in {"pending", "locked"}
    /\ WlBecomes([WlState EXCEPT !.w =
           [CloseDone(MediaStop(wayland)) EXCEPT !.compositor = "finished",
                                                 !.loop = "select"]])

\* DisplayDispatch returns an error: the event loop closes done and returns
WlDispatchError ==
    /\ WlRunning
    /\ wayland.loop = "dispatch"
    /\ WlBecomes([WlState EXCEPT !.w =
           [CloseDone(wayland) EXCEPT !.loop = "stopped"]])

\* a goroutine of authenticate stops the media player and unpauses media
WlUnlockStopMedia ==
    /\ WlRunning
    /\ wayland.unlockers.stopMedia > 0
    /\ WlBecomes([WlState EXCEPT !.w =
           [MediaStop(wayland) EXCEPT !.unlockers.stopMedia = @ - 1,
                                      !.unlockers.unlock = @ + 1]])

\* after its sleep the goroutine calls UnlockAndDestroy, recovering a panic
WlUnlockAndDestroy ==
    /\ WlRunning
    /\ wayland.unlockers.unlock > 0
    /\ WlBecomes([WlState EXCEPT !.w =
           [(IF wayland.lock # "nil"
             THEN UnlockAndDestroy(wayland, FALSE)
             ELSE wayland) EXCEPT !.unlockers.unlock = @ - 1,
                                  !.unlockers.signal = @ + 1]])

\* the goroutine runs the post-lock command and closes done
WlUnlockSignal ==
    /\ WlRunning
    /\ wayland.unlockers.signal > 0
    /\ WlBecomes([WlState EXCEPT !.w =
           [CloseDone(wayland) EXCEPT !.unlockers.signal = @ - 1,
                                      !.unlockers.ended = @ + 1]])

\* the redraw goroutine receives a count from redrawCh
WlRedraw ==
    /\ WlRunning
    /\ wayland.redraw = "running"
    /\ wayland.redrawCh # <<>>
    /\ WlBecomes([WlState EXCEPT !.w.redrawCh = Tail(@)])

\* the redraw goroutine receives from the closed done and returns
WlRedrawStops ==
    /\ WlRunning
    /\ wayland.redraw = "running"
    /\ wayland.done = "closed"
    /\ WlBecomes([WlState EXCEPT !.w.redraw = "stopped"])

\* the countdown goroutine leaves its loop and resets countdownActive
WlCountdownEnds ==
    /\ WlRunning
    /\ wayland.countdownEnd # 0
    /\ now >= wayland.countdownEnd
    /\ WlBecomes([WlState EXCEPT !.w.countdownActive = FALSE,
                                 !.w.countdownEnd = 0])

WlTick ==
    \E d \in TickSteps :
        /\ WlRunning
        /\ now + d <= WlMaxTime
        /\ WlBecomes([WlState EXCEPT !.now = now + d])

NextWayland ==
    \/ WlLock
    \/ WlLockReturns
    \/ WlLoopSelect
    \/ WlKeyboardKey
    \/ WlSessionLockLocked
    \/ WlSessionLockFinished
    \/ WlDispatchError
    \/ WlUnlockStopMedia
    \/ WlUnlockAndDestroy
    \/ WlUnlockSignal
    \/ WlRedraw
    \/ WlRedrawStops
    \/ WlCountdownEnds
    \/ WlTick

\* every goroutine that can run is scheduled in the end, as long as the
\* process lives
WlFairness ==
    /\ WF_vars(WlLockReturns)
    /\ WF_vars(WlLoopSelect)
    /\ WF_vars(WlUnlockStopMedia)
    /\ WF_vars(WlUnlockAndDestroy)
    /\ WF_vars(WlUnlockSignal)
    /\ WF_vars(WlRedraw)
    /\ WF_vars(WlRedrawStops)
    /\ WF_vars(WlCountdownEnds)

SpecWayland == Init /\ [][NextWayland]_vars /\ WlFairness

----------------------------------------------------------------------------
(* Calls on one MediaPlayer: one caller of Start, any caller of Stop, the     *)
(* player processes and the goroutines that watch them.  A step is what a    *)
(* call does without releasing mp.mutex, or what it does outside of it.      *)

\* the state after a step of the MediaPlayer
MpBecomes(mp) ==
    /\ mediaPlayer' = mp
    /\ UNCHANGED <<now, config, lockoutManager, twin, ret, hist, x11Vars,
                   securePassword, wayland, program,
                   simpleLocker, laterVars>>

\* Start returns; the playlists it has made are not followed any further
StartReturns(mp, err) ==
    [mp EXCEPT !.start = [pc |-> "idle", idx |-> 0, launched |-> 0,
                          spawnFailed |-> FALSE],
               !.playlists = {},
               !.last = Returned(mp, "Start", FALSE, 0, 0, FALSE, err)]

\* the loop of Start over mp.monitors goes to the next monitor, or Start
\* returns nil after the last one
NextMonitor(mp) ==
    IF mp.start.idx + 1 < mp.monitors
    THEN [mp EXCEPT !.start.pc = "playlist", !.start.idx = @ + 1]
    ELSE StartReturns(mp, FALSE)

\* SetMonitors, called once before Start: an empty list becomes one monitor
MpSetMonitors ==
    \E n \in 0..MaxMonitors :
        /\ mediaPlayer.monitors = 0
        /\ mediaPlayer.start.pc = "idle"
        /\ MpBecomes([mediaPlayer EXCEPT !.monitors = IF n = 0 THEN 1 ELSE n])

\* the supported files config.MediaDir holds when the player is first used
MpDirChanges ==
    \E n \in 0..MaxPool :
        /\ n # mediaPlayer.dir
        /\ mediaPlayer.last.op = "NewMediaPlayer"
        /\ mediaPlayer.start.pc = "idle"
        /\ MpBecomes([mediaPlayer EXCEPT !.dir = n])

\* Start, its first critical section: it returns nil when the player is
\* running and sets running otherwise
MpStartBegin ==
    /\ mediaPlayer.start.pc = "idle"
    /\ MpBecomes(IF mediaPlayer.running
                 THEN StartReturns(mediaPlayer, FALSE)
                 ELSE [mediaPlayer EXCEPT !.running = TRUE,
                                          !.start.pc = "scan"])

\* Start scans the directory: it returns an error when the scan fails (after
\* `found` files) or finds no file
MpStartScan ==
    \E scanOk \in BOOLEAN :
    \E found \in IF scanOk THEN {mediaPlayer.dir} ELSE 0..mediaPlayer.dir :
        LET scanned == [mediaPlayer EXCEPT !.mediaFiles = Files(found)] IN
        /\ mediaPlayer.start.pc = "scan"
        /\ MpBecomes(IF ~scanOk \/ found = 0
                     THEN StartReturns(scanned, TRUE)
                     ELSE IF scanned.monitors = 0
                          THEN StartReturns(scanned, FALSE)
                          ELSE [scanned EXCEPT !.start.pc = "playlist",
                                               !.playlists = {}])

\* startPlaylistOnMonitor creates the playlist file (tempOk) and, under the
\* mutex, chooses the media of the playlist
MpStartPlaylist ==
    \E tempOk \in BOOLEAN :
        /\ mediaPlayer.start.pc = "playlist"
        /\ MpBecomes(IF tempOk
                     THEN [mediaPlayer EXCEPT
                              !.start.pc = "launch",
                              !.playlists =
                                  MapSet(@, mediaPlayer.start.idx,
                                         Playlist(mediaPlayer.mediaFiles,
                                                  mediaPlayer.currentlyPlaying,
                                                  mediaPlayer.start.idx))]
                     ELSE NextMonitor(mediaPlayer))

\* a Start that, when a player process fails to start, kills the processes
\* it has started and returns the error
MpStartLaunchAllOrNothing ==
    \E ok \in BOOLEAN :
        /\ mediaPlayer.start.pc = "launch"
        /\ ok => Len(mediaPlayer.procs) < MaxProcs
        /\ MpBecomes(IF ok
                     THEN [mediaPlayer EXCEPT
                              !.start.pc = "record",
                              !.procs = Append(@,
                                  [state |-> "live",
                                   monitor |-> mediaPlayer.start.idx,
                                   playlist |->
                                       (CHOOSE e \in mediaPlayer.playlists :
                                           e[1] = mediaPlayer.start.idx)[2]])]
                     ELSE StartReturns(
                              [mediaPlayer EXCEPT
                                  !.procs = [p \in DOMAIN mediaPlayer.procs |->
                                      IF mediaPlayer.procs[p].state = "live"
                                      THEN Ended(mediaPlayer.procs[p], "killed")
                                      ELSE mediaPlayer.procs[p]],
                                  !.currentProcs = <<>>,
                                  !.start.spawnFailed = TRUE], TRUE))

\* startPlaylistOnMonitor writes the playlist and starts the player process;
\* either may fail (ok)
MpStartLaunch ==
    \E ok \in BOOLEAN :
        /\ mediaPlayer.start.pc = "launch"
        /\ ok => Len(mediaPlayer.procs) < MaxProcs
        /\ MpBecomes(IF ok
                     THEN [mediaPlayer EXCEPT
                              !.start.pc = "record",
                              !.procs = Append(@,
                                  [state |-> "live",
                                   monitor |-> mediaPlayer.start.idx,
                                   playlist |->
                                       (CHOOSE e \in mediaPlayer.playlists :
                                           e[1] = mediaPlayer.start.idx)[2]])]
                     ELSE NextMonitor([mediaPlayer EXCEPT
                                          !.start.spawnFailed = TRUE]))

\* startPlaylistOnMonitor, its second critical section: the process is added
\* to currentProcs
MpStartRecord ==
    /\ mediaPlayer.start.pc = "record"
    /\ MpBecomes(NextMonitor([mediaPlayer EXCEPT
                     !.currentProcs = Append(@, Len(mediaPlayer.procs)),
                     !.currentlyPlaying = MapSet(@, mediaPlayer.start.idx, 0),
                     !.start.launched = @ + 1]))

\* Stop, called by any goroutine
MpStop ==
    /\ ~mediaPlayer.panicked
    /\ MpBecomes(Stop(mediaPlayer))

\* a player process ends by itself
MpProcExits ==
    \E p \in 1..Len(mediaPlayer.procs) :
        /\ mediaPlayer.procs[p].state = "live"
        /\ MpBecomes([mediaPlayer EXCEPT !.procs[p] = Ended(@, "exited")])

\* the goroutine that watches a process records the file it plays
MpTicker ==
    \E p \in 1..Len(mediaPlayer.procs) :
    \E path \in Range(mediaPlayer.procs[p].playlist) :
        /\ mediaPlayer.procs[p].state = "live"
        /\ ~(mediaPlayer.start.pc = "record" /\ p = Len(mediaPlayer.procs))
        /\ MpBecomes([mediaPlayer EXCEPT
               !.currentlyPlaying =
                   MapSet(@, mediaPlayer.procs[p].monitor, path)])

\* a watcher that starts the player of its monitor again when it has ended
MpCleanupRestarts ==
    \E p \in 1..Len(mediaPlayer.procs) :
        /\ mediaPlayer.procs[p].state \in {"exited", "killed"}
        /\ ~(mediaPlayer.start.pc = "record" /\ p = Len(mediaPlayer.procs))
        /\ MpBecomes([mediaPlayer EXCEPT !.procs[p].state = "live"])

\* the goroutine that waits for a process deletes its currentlyPlaying entry
MpCleanup ==
    \E p \in 1..Len(mediaPlayer.procs) :
        /\ mediaPlayer.procs[p].state \in {"exited", "killed"}
        /\ ~(mediaPlayer.start.pc = "record" /\ p = Len(mediaPlayer.procs))
        /\ MpBecomes([mediaPlayer EXCEPT
               !.procs[p] = [Ended(@, "reaped") EXCEPT !.monitor = 0],
               !.currentlyPlaying = MapDelete(@, mediaPlayer.procs[p].monitor)])

NextMedia ==
    \/ MpSetMonitors
    \/ MpDirChanges
    \/ MpStartBegin
    \/ MpStartScan
    \/ MpStartPlaylist
    \/ MpStartLaunch
    \/ MpStartRecord
    \/ MpStop
    \/ MpProcExits
    \/ MpTicker
    \/ MpCleanup

SpecMedia == Init /\ [][NextMedia]_vars

----------------------------------------------------------------------------
(* Steps of main *)

\* the state after a step of main
MainBecomes(pr) ==
    /\ program' = pr
    /\ UNCHANGED <<now, config, lockoutManager, twin, ret, hist, x11Vars,
                   securePassword, wayland, mediaPlayer,
                   simpleLocker, laterVars>>

\* flag.Parse, the help and version exits, and the Configuration built from
\* the defaults and the flags
MainParseFlags ==
    \E c, l, h, debugExit, log, v \in BOOLEAN :
        LET flags == [c |-> c, l |-> l, h |-> h, debugExit |-> debugExit,
                      log |-> log, v |-> v]
        IN
        /\ program.pc = "start"
        /\ MainBecomes(
               IF h \/ (NoFlag(flags) /\ ~l)
               THEN [program EXCEPT !.flags = flags, !.pc = "exit",
                                    !.exit = "usage"]
               ELSE IF v
               THEN [program EXCEPT !.flags = flags, !.pc = "exit",
                                    !.exit = "version"]
               ELSE [program EXCEPT !.flags = flags,
                                    !.config = DefaultConfig(l, debugExit),
                                    !.flagged = DefaultConfig(l, debugExit),
                                    !.configPath = c,
                                    !.pc = "find"])

\* without -c the default configuration file is used when it exists
MainFindConfig ==
    \E exists \in BOOLEAN :
        LET found == program.configPath \/ exists IN
        /\ program.pc = "find"
        /\ MainBecomes([program EXCEPT !.configPath = found,
                                       !.pc = IF found THEN "load"
                                              ELSE "detect"])

\* LoadConfig on the configuration file; an error is logged
MainLoadConfig ==
    \E readable, syntaxOk, mediaDirOk \in BOOLEAN :
    \E lock_screen, debug_exit \in {"absent", "true", "false"} :
    \E image_display_time \in {<<>>, <<0>>, <<10>>} :
        LET file == [readable |-> readable, syntaxOk |-> syntaxOk,
                     lock_screen |-> lock_screen, debug_exit |-> debug_exit,
                     image_display_time |-> image_display_time]
            loaded == LoadConfig(program.config, file, mediaDirOk)
        IN
        /\ program.pc = "load"
        /\ MainBecomes([program EXCEPT
               !.config = loaded.config,
               !.loadErr = loaded.err,
               !.file = IF readable /\ syntaxOk THEN lock_screen ELSE "none",
               !.pc = "detect"])

\* DetectDisplayServer and the choice of the locker
MainDetect ==
    \E server \in {"hyprland", "wayland", "x11"} :
        /\ program.pc = "detect"
        /\ MainBecomes(IF server = "wayland"
                       THEN [program EXCEPT !.server = server, !.pc = "exit",
                                            !.exit = "fatal"]
                       ELSE [program EXCEPT !.server = server, !.pc = "lock"])

\* the end of main: locker.Lock() is called when config.LockScreen is set
MainLock ==
    /\ program.pc = "lock"
    /\ MainBecomes(IF program.config.LockScreen
                   THEN [program EXCEPT !.lockCalled = TRUE, !.pc = "exit",
                                        !.exit = "locked"]
                   ELSE [program EXCEPT !.pc = "exit", !.exit = "nolock"])

NextMain ==
    \/ MainParseFlags
    \/ MainFindConfig
    \/ MainLoadConfig
    \/ MainDetect
    \/ MainLock

SpecMain == Init /\ [][NextMain]_vars

----------------------------------------------------------------------------
(* Steps of the WaylandLocker of wayland.go *)

\* the state after a step of this WaylandLocker
SimpleBecomes(l) ==
    /\ simpleLocker' = l
    /\ UNCHANGED <<now, config, lockoutManager, twin, ret, hist, x11Vars,
                   securePassword, wayland, mediaPlayer, program, laterVars>>

\* Lock() up to its dispatch loop: it returns an error before the session
\* lock is taken (ok = FALSE), or takes it and starts the goroutine that
\* sleeps 5 seconds
SimpleLock ==
    \E ok \in BOOLEAN :
        /\ simpleLocker.lock = "nil"
        /\ simpleLocker.timer = "none"
        /\ SimpleBecomes(IF ok
                         THEN [simpleLocker EXCEPT !.lock = "live",
                                                   !.timer = "sleeping"]
                         ELSE [simpleLocker EXCEPT !.timer = "done"])

\* a key event delivered to HandleKeyboardKey while the lock is held
SimpleKeyboardKey ==
    \E key \in SimpleKeys, state \in {0, 1} :
        LET l == SimpleHandleKeyboardKey(simpleLocker, key, state) IN
        /\ simpleLocker.lock = "live"
        /\ Len(l.passwordBuf) <= MaxSimplePassword
        /\ SimpleBecomes(l)

\* the goroutine of Lock() wakes up and calls UnlockAndDestroy
SimpleAutoUnlock ==
    /\ simpleLocker.timer = "sleeping"
    /\ SimpleBecomes(
           IF simpleLocker.lock # "nil"
           THEN [Debug(simpleLocker, "Auto-unlocking after delay", <<>>)
                    EXCEPT !.lock = "destroyed", !.timer = "done"]
           ELSE [simpleLocker EXCEPT !.timer = "done"])

NextSimple ==
    \/ SimpleLock
    \/ SimpleKeyboardKey
    \/ SimpleAutoUnlock

SpecSimple == Init /\ [][NextSimple]_vars

-----------------------------------------------------------------------------
(* The WaylandLocker with the lockout in authenticate (part_006, first file) *)

\* strings.ToLower on a string of ASCII characters
ToLower(str) ==
    [i \in 1..Len(str) |-> IF str[i] >= 65 /\ str[i] <= 90
                           THEN str[i] + 32 ELSE str[i]]

\* strings.Contains
Contains(str, substr) ==
    \E i \in 0..(Len(str) - Len(substr)) :
        SubSeq(str, i + 1, i + Len(substr)) = substr

\* "account is locked", the text authenticate looks for
AccountIsLocked ==
    <<97, 99, 99, 111, 117, 110, 116, 32, 105, 115, 32, 108, 111, 99, 107,
      101, 100>>

\* messages of a failed Authenticate: "Authentication failed: " followed by
\* the error text of the PAM module, here "Authentication failure" and
\* "Account is locked"
InlineMessages ==
    {<<65, 117, 116, 104, 101, 110, 116, 105, 99, 97, 116, 105, 111, 110, 32,
       102, 97, 105, 108, 101, 100, 58, 32, 65, 117, 116, 104, 101, 110, 116,
       105, 99, 97, 116, 105, 111, 110, 32, 102, 97, 105, 108, 117, 114,
       101>>,
     <<65, 117, 116, 104, 101, 110, 116, 105, 99, 97, 116, 105, 111, 110, 32,
       102, 97, 105, 108, 101, 100, 58, 32, 65, 99, 99, 111, 117, 110, 116,
       32, 105, 115, 32, 108, 111, 99, 107, 101, 100>>}

\* key codes delivered: Escape, '1', Backspace, Enter
InlineKeys == {1, 2, 14, 28}

\* StartCountdown: sets the flag and starts a goroutine
InlineStartCountdown(l, duration) ==
    LET capped == IF duration > 300 THEN 300 ELSE duration IN
    [l EXCEPT !.countdownActive = TRUE,
              !.countdowns = Append(@, [duration |-> capped, i |-> capped])]

\* authenticate at time t, Authenticate returning result. The shake animation
\* it ends with on a failure lasts 0.96 s, less than a second of the clock
InlineAuthenticate(l, t, result) ==
    IF l.lockoutActive /\ t < l.lockoutUntil
    THEN [l EXCEPT !.length = 0]
    ELSE
    LET l1 == IF l.lockoutActive /\ t > l.lockoutUntil
              THEN [l EXCEPT !.lockoutActive = FALSE] ELSE l
        failed == l1.failedAttempts + 1
        scaled == 30 * (failed \div 3)
        lockoutDuration == IF ~l1.lockoutActive THEN 30
                           ELSE IF scaled > 300 THEN 300 ELSE scaled
        l2 == [l1 EXCEPT !.failedAttempts = failed]
        l3 == IF failed >= 3
              THEN [InlineStartCountdown(
                        [l2 EXCEPT !.lockoutUntil = t + lockoutDuration,
                                   !.lockoutActive = TRUE],
                        lockoutDuration)
                      EXCEPT !.failedAttempts = 0]
              ELSE l2
        l4 == IF Contains(ToLower(result.Message), AccountIsLocked)
              THEN InlineStartCountdown(l3, 300) ELSE l3
    IN  IF result.Success
        THEN [l1 EXCEPT !.done = "closing", !.length = 0]
        ELSE [l4 EXCEPT !.length = 0]

\* HandleKeyboardKey(ev) at time t
InlineHandleKeyboardKey(l, key, state, debugExit, t, result) ==
    IF state # 1 THEN l
    ELSE IF l.countdownActive
    THEN IF key = 1 /\ debugExit THEN [l EXCEPT !.done = "closed"] ELSE l
    ELSE IF key = 1
    THEN [l EXCEPT !.length = 0,
                   !.done = IF debugExit THEN "closed" ELSE @]
    ELSE IF key \in {28, 96, 108, 65} THEN InlineAuthenticate(l, t, result)
    ELSE IF key = 14 THEN [l EXCEPT !.length = IF @ > 0 THEN @ - 1 ELSE 0]
    ELSE IF key >= 2 /\ key <= 11 THEN [l EXCEPT !.length = @ + 1]
    ELSE l

\* the state after a step of this WaylandLocker
InlineBecomes(l, t) ==
    /\ inlineLocker' = l
    /\ now' = t
    /\ UNCHANGED <<config, lockoutManager, twin, ret, hist, x11Vars,
                   securePassword, wayland, mediaPlayer, program,
                   simpleLocker, playback, lockHelper>>

\* a key event while the session is locked
InlineKeyboardKey ==
    \E key \in InlineKeys, state \in {0, 1}, success \in BOOLEAN,
       message \in InlineMessages :
        LET result == [Success |-> success, Message |-> message]
            l == InlineHandleKeyboardKey(inlineLocker, key, state,
                                         config.DebugExit, now, result)
        IN  /\ inlineLocker.done = "open"
            /\ l.length <= MaxInlinePassword
            /\ Len(l.countdowns) <= MaxCountdowns
            /\ InlineBecomes(l, now)

\* d seconds pass: every countdown goroutine that sleeps wakes up d times
InlineTick ==
    \E d \in InlineTickSteps :
        /\ now + d <= InlineMaxTime
        /\ \A k \in DOMAIN inlineLocker.countdowns :
              inlineLocker.countdowns[k].i = 0
              \/ inlineLocker.countdowns[k].i >= d
        /\ InlineBecomes(
              [inlineLocker EXCEPT !.countdowns =
                  [k \in DOMAIN @ |-> [@[k] EXCEPT !.i = IF @ = 0 THEN 0
                                                         ELSE @ - d]]],
              now + d)

\* a countdown goroutine leaves its loop, clears the message and resets the
\* flag
InlineCountdownEnds ==
    \E k \in DOMAIN inlineLocker.countdowns :
        /\ inlineLocker.countdowns[k].i = 0
        /\ InlineBecomes(
              [inlineLocker EXCEPT
                  !.countdownActive = FALSE,
                  !.countdowns = SubSeq(@, 1, k - 1)
                                 \o SubSeq(@, k + 1, Len(@))],
              now)

NextInline ==
    \/ InlineKeyboardKey
    \/ InlineTick
    \/ InlineCountdownEnds

SpecInline == Init /\ [][NextInline]_vars

-----------------------------------------------------------------------------
(* MediaPlayer, monitor by monitor: startPlaylistOnMonitor, the goroutine   *)
(* that waits for the player process and the goroutine that asks it every   *)
(* second which file it plays                                               *)

\* getCurrentFile: the path the player answers with, "" when the connection
\* or the exchange fails (answers = FALSE) or the process has ended
getCurrentFile(process, answers) ==
    IF process = "live" /\ answers THEN "path" ELSE ""

\* the state after a step that changes monitor m into r
PbBecomes(pb) ==
    /\ playback' = pb
    /\ UNCHANGED <<now, config, lockoutManager, twin, ret, hist, x11Vars,
                   securePassword, wayland, mediaPlayer, program,
                   simpleLocker, inlineLocker, lockHelper>>

\* Start sets running and goes through the monitors
PbStart ==
    /\ ~playback.started
    /\ PbBecomes([playback EXCEPT !.running = TRUE, !.started = TRUE])

\* startPlaylistOnMonitor is called for monitor m once the call for the
\* monitor before it has returned; os.CreateTemp succeeds or not
PbCreateTemp ==
    \E m \in 1..MaxPlaybackMonitors, ok \in BOOLEAN :
        /\ playback.started
        /\ playback.monitor[m].pc = "none"
        /\ \A k \in 1..(m - 1) :
              playback.monitor[k].pc \in {"returned", "failed"}
        /\ PbBecomes([playback EXCEPT !.monitor[m] =
               IF ok THEN [@ EXCEPT !.pc = "temp", !.file = "present"]
               ELSE [@ EXCEPT !.pc = "failed"]])

\* the playlist is written; on an error the call returns it
PbWritePlaylist ==
    \E m \in 1..MaxPlaybackMonitors, ok \in BOOLEAN :
        /\ playback.monitor[m].pc = "temp"
        /\ PbBecomes([playback EXCEPT !.monitor[m].pc =
               IF ok THEN "written" ELSE "failed"])

\* cmd.Start(); on an error the call returns it
PbSpawn ==
    \E m \in 1..MaxPlaybackMonitors, ok \in BOOLEAN :
        /\ playback.monitor[m].pc = "written"
        /\ PbBecomes([playback EXCEPT !.monitor[m] =
               IF ok THEN [@ EXCEPT !.pc = "spawned", !.process = "live"]
               ELSE [@ EXCEPT !.pc = "failed"]])

\* the second critical section, the start of the goroutine that waits for
\* the process, and the return
PbRecord ==
    \E m \in 1..MaxPlaybackMonitors :
        /\ playback.monitor[m].pc = "spawned"
        /\ PbBecomes([playback EXCEPT !.monitor[m] =
               [@ EXCEPT !.pc = "returned", !.listed = TRUE, !.entry = "",
                         !.watcher = "sleep"]])

\* after its sleep the goroutine starts the one with the ticker and waits
\* for the process
PbWatcherWaits ==
    \E m \in 1..MaxPlaybackMonitors :
        /\ playback.monitor[m].watcher = "sleep"
        /\ PbBecomes([playback EXCEPT !.monitor[m] =
               [@ EXCEPT !.watcher = "wait", !.poller = "select"]])

\* the player process ends by itself
PbProcExits ==
    \E m \in 1..MaxPlaybackMonitors :
        /\ playback.monitor[m].process = "live"
        /\ PbBecomes([playback EXCEPT !.monitor[m].process = "exited"])

\* Stop: kills the processes of currentProcs and empties it
PbStop ==
    /\ playback.running
    /\ PbBecomes([playback EXCEPT
           !.running = FALSE,
           !.monitor = [m \in DOMAIN @ |->
               [@[m] EXCEPT !.listed = FALSE,
                            !.process =
                                IF playback.monitor[m].listed /\ @ = "live"
                                THEN "killed" ELSE @]]])

\* cmd.Wait returns: the goroutine closes stopCheck and removes the playlist
\* file and the socket
PbWatcherCleans ==
    \E m \in 1..MaxPlaybackMonitors :
        /\ playback.monitor[m].watcher = "wait"
        /\ playback.monitor[m].process \in {"exited", "killed"}
        /\ PbBecomes([playback EXCEPT !.monitor[m] =
               [@ EXCEPT !.watcher = "cleanup", !.file = "removed"]])

\* the goroutine deletes the monitor's entry under the mutex and ends
PbWatcherDeletes ==
    \E m \in 1..MaxPlaybackMonitors :
        /\ playback.monitor[m].watcher = "cleanup"
        /\ PbBecomes([playback EXCEPT !.monitor[m] =
               [@ EXCEPT !.watcher = "done", !.entry = "absent"]])

\* a tick: the goroutine calls getCurrentFile and goes on to the mutex when
\* it has a file name
PbPollerAsks ==
    \E m \in 1..MaxPlaybackMonitors, answers \in BOOLEAN :
        /\ playback.monitor[m].poller = "select"
        /\ getCurrentFile(playback.monitor[m].process, answers) # ""
        /\ PbBecomes([playback EXCEPT !.monitor[m].poller = "write"])

\* the goroutine writes the file name under the mutex
PbPollerWrites ==
    \E m \in 1..MaxPlaybackMonitors :
        /\ playback.monitor[m].poller = "write"
        /\ PbBecomes([playback EXCEPT !.monitor[m] =
               [@ EXCEPT !.poller = "select", !.entry = "path"]])

\* the goroutine receives from the closed stopCheck and returns
PbPollerStops ==
    \E m \in 1..MaxPlaybackMonitors :
        /\ playback.monitor[m].poller = "select"
        /\ playback.monitor[m].watcher \in {"cleanup", "done"}
        /\ PbBecomes([playback EXCEPT !.monitor[m].poller = "stopped"])

NextPlayback ==
    \/ PbStart
    \/ PbCreateTemp
    \/ PbWritePlaylist
    \/ PbSpawn
    \/ PbRecord
    \/ PbWatcherWaits
    \/ PbProcExits
    \/ PbStop
    \/ PbWatcherCleans
    \/ PbWatcherDeletes
    \/ PbPollerAsks
    \/ PbPollerWrites
    \/ PbPollerStops

\* Start and every goroutine that can run are scheduled in the end; a player
\* may play for ever and Stop need not be called
PbFairness ==
    /\ WF_vars(PbCreateTemp)
    /\ WF_vars(PbWritePlaylist)
    /\ WF_vars(PbSpawn)
    /\ WF_vars(PbRecord)
    /\ WF_vars(PbWatcherWaits)
    /\ WF_vars(PbWatcherCleans)
    /\ WF_vars(PbWatcherDeletes)
    /\ WF_vars(PbPollerWrites)
    /\ WF_vars(PbPollerStops)

SpecPlayback == Init /\ [][NextPlayback]_vars /\ PbFairness

-----------------------------------------------------------------------------
(* LockHelper and MediaController (lock.go, part_008): the MPRIS players    *)
(* on the session bus are numbered 1..MaxPlayers                            *)

\* NewLockHelper: the MediaController is created when one of the two options
\* is set and the session bus can be reached
NewLockHelper(h, cfg, connectOk) ==
    [h EXCEPT !.phase = "created", !.config = cfg,
              !.mediaCtrl = (cfg.LockPauseMedia \/ cfg.UnlockUnpauseMedia)
                            /\ connectOk]

\* pausePlayer: Pause is sent to a player whose status can be read (answers)
\* and is "Playing"
pausePlayer(h, name, answers) ==
    IF answers /\ h.status[name] = "Playing"
    THEN [h EXCEPT !.status[name] = "Paused", !.paused = @ \cup {name}]
    ELSE h

\* unpausePlayer: Play is sent to a player whose status can be read and is
\* "Paused"
unpausePlayer(h, name, answers) ==
    IF answers /\ h.status[name] = "Paused"
    THEN [h EXCEPT !.status[name] = "Playing", !.played = @ \cup {name}]
    ELSE h

\* the loop of PauseAllMedia over the names, from name n on
RECURSIVE PauseFrom(_, _, _)
PauseFrom(h, n, answering) ==
    IF n > MaxPlayers THEN h
    ELSE PauseFrom(pausePlayer(h, n, n \in answering), n + 1, answering)

\* the loop of UnpauseAllMedia over the names, from name n on
RECURSIVE UnpauseFrom(_, _, _)
UnpauseFrom(h, n, answering) ==
    IF n > MaxPlayers THEN h
    ELSE UnpauseFrom(unpausePlayer(h, n, n \in answering), n + 1, answering)

\* PauseAllMedia: it returns an error when the names cannot be listed
PauseAllMedia(h, listOk, answering) ==
    IF listOk THEN PauseFrom(h, 1, answering) ELSE h

\* UnpauseAllMedia
UnpauseAllMedia(h, listOk, answering) ==
    IF listOk THEN UnpauseFrom(h, 1, answering) ELSE h

\* PauseMediaIfEnabled
PauseMediaIfEnabled(h, listOk, answering) ==
    IF ~h.config.LockPauseMedia \/ ~h.mediaCtrl THEN h
    ELSE PauseAllMedia(h, listOk, answering)

\* UnpauseMediaIfEnabled
UnpauseMediaIfEnabled(h, listOk, answering) ==
    IF ~h.config.UnlockUnpauseMedia \/ ~h.mediaCtrl THEN h
    ELSE UnpauseAllMedia(h, listOk, answering)

\* the state after a step of the LockHelper or of a player
HelperBecomes(h) ==
    /\ lockHelper' = h
    /\ UNCHANGED <<now, config, lockoutManager, twin, ret, hist, x11Vars,
                   securePassword, wayland, mediaPlayer, program,
                   simpleLocker, inlineLocker, playback>>

\* the locker is created with its LockHelper
HelperCreated ==
    \E lockPause, unlockUnpause, connectOk \in BOOLEAN :
        /\ lockHelper.phase = "none"
        /\ HelperBecomes(NewLockHelper(lockHelper,
               [LockPauseMedia |-> lockPause,
                UnlockUnpauseMedia |-> unlockUnpause], connectOk))

\* a player changes its status by itself or by its user
PlayerChanges ==
    \E p \in 1..MaxPlayers, status \in {"Playing", "Paused", "Stopped"} :
        /\ lockHelper.status[p] # status
        /\ HelperBecomes([lockHelper EXCEPT !.status[p] = status])

\* Lock() calls PauseMediaIfEnabled
HelperLock ==
    \E listOk \in BOOLEAN, answering \in SUBSET (1..MaxPlayers) :
        /\ lockHelper.phase = "created"
        /\ HelperBecomes([PauseMediaIfEnabled(lockHelper, listOk, answering)
                             EXCEPT !.phase = "locked"])

\* the unlock calls UnpauseMediaIfEnabled
HelperUnlock ==
    \E listOk \in BOOLEAN, answering \in SUBSET (1..MaxPlayers) :
        /\ lockHelper.phase = "locked"
        /\ HelperBecomes([UnpauseMediaIfEnabled(lockHelper, listOk, answering)
                             EXCEPT !.phase = "unlocked"])

NextHelper ==
    \/ HelperCreated
    \/ PlayerChanges
    \/ HelperLock
    \/ HelperUnlock

SpecHelper == Init /\ [][NextHelper]_vars

----------------------------------------------------------------------------
(* Claims about the LockoutManager and the X11Locker *)

\* C1: HandleFailedAttempt returns lockoutActive = TRUE exactly on the third
\* failure counted since the most recent ResetLockout or lockout activation,
\* and on every other failure returns FALSE with
\* remainingAttempts = 3 - failedAttempts.
C1_ThirdFailureLocksOut ==
    ret.op = "HandleFailedAttempt" =>
        /\ ret.lockoutActive <=> hist.nth = 3
        /\ ~ret.lockoutActive =>
               ret.remainingAttempts = 3 - lockoutManager.failedAttempts

\* a second lockout, activated by the third failure after the first one
C1_Witness ==
    /\ ret.op = "HandleFailedAttempt"
    /\ ret.lockoutActive
    /\ hist.nth = 3
    /\ hist.lockouts = 2

\* C2: in the X11Locker, after three failed authentications in a row
\* IsLockedOut() is true and GetRemainingTime() is positive until the lockout
\* deadline, and a key press (Enter included) handled before that deadline
\* makes no call to authenticator.Authenticate.
C2_LockedOutAfterThreeFailures ==
    /\ (ev.third /\ now < lockoutManager.lockoutUntil) =>
           /\ IsLockedOut(lockoutManager, now, now).result
           /\ GetRemainingTime(lockoutManager, now).result > 0
    /\ ev.inForce => ~ev.authCalled

\* Enter was pressed during the lockout that followed the third failure
C2_Witness ==
    /\ ev.op = "handleKeyPress"
    /\ ev.key = "enter"
    /\ ev.inForce
    /\ ev.third
    /\ now < lockoutManager.lockoutUntil
    /\ lockoutManager.lockoutActive

\* C3: in the X11Locker, isLocked goes from TRUE to FALSE only in a step in
\* which authenticator.Authenticate returned Success, or in which
\* config.DebugExit is set and the key pressed is Escape, q or Q; with
\* DebugExit off, an unlocked session has seen a successful authentication.
C3_UnlockOnlyByAuthentication ==
    /\ [][(isLocked /\ ~isLocked') =>
             \/ ev'.authCalled /\ ev'.success
             \/ config.DebugExit /\ ev'.key = "exit"]_vars
    /\ []((proc.lockCalled /\ ~isLocked /\ ~config.DebugExit) =>
             (ev.authCalled /\ ev.success))

\* the session was unlocked by a successful authentication, DebugExit off
C3_Witness ==
    /\ proc.lockCalled
    /\ ~isLocked
    /\ ~config.DebugExit
    /\ ev.authCalled
    /\ ev.success

\* C4: after a lockout was activated and with no ResetLockout since,
\* IsLockedOut() observed at time `at` returns TRUE if and only if
\* at < lockoutUntil; it returns FALSE at the deadline and later.
C4_LockedOutUntilDeadline ==
    (ret.op = "IsLockedOut" /\ hist.armed) =>
        (ret.result <=> ret.at < lockoutManager.lockoutUntil)

\* IsLockedOut observed exactly at the deadline answers FALSE
C4_Witness ==
    /\ ret.op = "IsLockedOut"
    /\ hist.armed
    /\ ret.at = lockoutManager.lockoutUntil
    /\ ~ret.result

\* C5: an observation (IsLockedOut or GetRemainingTime) made at a time
\* at >= lockoutUntil, the deadline itself included, leaves
\* lockoutActive = FALSE.
C5_ObservationClearsLockout ==
    (ret.op \in {"IsLockedOut", "GetRemainingTime"}
        /\ ret.at >= lockoutManager.lockoutUntil) =>
        ~lockoutManager.lockoutActive

\* C6: failedAttempts is 0 right after every HandleFailedAttempt that
\* activates a lockout and after every ResetLockout, and between calls it is
\* always 0, 1 or 2.
C6_FailedAttemptsBelowThree ==
    /\ lockoutManager.failedAttempts \in {0, 1, 2}
    /\ (ret.op = "HandleFailedAttempt" /\ ret.lockoutActive) =>
           lockoutManager.failedAttempts = 0
    /\ ret.op = "ResetLockout" => lockoutManager.failedAttempts = 0

\* a lockout was just activated with two failures counted before it
C6_Witness ==
    /\ ret.op = "HandleFailedAttempt"
    /\ ret.lockoutActive
    /\ hist.nth = 3
    /\ lockoutManager.failedAttempts = 0

C9_DebugExitKeepsShape ==
    /\ twin.failedAttempts = lockoutManager.failedAttempts
    /\ twin.lockoutActive = lockoutManager.lockoutActive
    /\ ret.op = "HandleFailedAttempt" =>
           /\ ret.twinActive = ret.lockoutActive
           /\ ret.twinRemaining = ret.remainingAttempts

\* both managers just locked out, for different durations
C9_Witness ==
    /\ ret.op = "HandleFailedAttempt"
    /\ ret.lockoutActive
    /\ ret.twinActive
    /\ ret.twinDuration # ret.lockoutDuration
    /\ twin.lockoutUntil # lockoutManager.lockoutUntil

----------------------------------------------------------------------------
(* Claims about the SecurePassword *)

\* C10: after any Append, RemoveLast and Clear calls, every byte position
\* that held a character since removed from the password holds zero, in
\* every array that has ever backed the buffer, the array replaced when
\* Append grows the buffer beyond its 64 bytes included.
C10_RemovedBytesAreZero ==
    \A k \in DOMAIN securePassword.heap :
        \A i \in DOMAIN securePassword.heap[k] :
            i > securePassword.live[k] => securePassword.heap[k][i] = 0

----------------------------------------------------------------------------
(* Claims about the WaylandLocker *)

\* C7: when WaylandLocker.authenticate finds the session not locked out and
\* the authenticator returns success, then on its return failedAttempts = 0,
\* lockoutActive is false and securePassword.Length() = 0, and in the end
\* the session is unlocked: UnlockAndDestroy has been called and done is
\* closed.
C7_SuccessUnlocksSession ==
    /\ [][Started(wayland'.unlockers) > Started(wayland.unlockers)
          => /\ lockoutManager'.failedAttempts = 0
             /\ ~lockoutManager'.lockoutActive
             /\ SPLength(securePassword') = 0]_vars
    /\ (Started(wayland.unlockers) > 0)
           ~> (wayland.lock = "destroyed" /\ wayland.done = "closed")

----------------------------------------------------------------------------
(* Claims about the X11Locker session *)

\* C11: after every execution of X11Locker.authenticate, whichever branch it
\* took (refused because locked out, authentication failed, authentication
\* succeeded), passwordBuf is empty.
C11_BufferEmptyAfterAuthenticate ==
    ev.branch # "none" => passwordBuf = <<>>

C13_LockReturnsUnlocked ==
    proc.lockCalled => ~isLocked

----------------------------------------------------------------------------
(* Claims about WaylandLocker.Lock *)

\* C14: if WaylandLocker.Lock() cannot establish the session lock
\* (initWayland returns an error), Lock returns that error and the session
\* was never marked locked: lockActive is false when Lock returns.
C14_FailedLockNotMarkedLocked ==
    wayland.main = "failed" => ~wayland.lockActive

----------------------------------------------------------------------------
(* Claims about the MediaPlayer *)

\* C15: for every interleaving of Start() and Stop() calls on one
\* MediaPlayer, in every quiescent state (no Start or Stop in progress) each
\* live player process is recorded in currentProcs and running is true, so
\* that the next Stop() kills it.
C15_LiveProcessesAreStoppable ==
    mediaPlayer.start.pc = "idle" =>
        \A p \in 1..Len(mediaPlayer.procs) :
            mediaPlayer.procs[p].state = "live" =>
                /\ p \in Range(mediaPlayer.currentProcs)
                /\ mediaPlayer.running

\* C16: Start() on a media directory that contains no supported file returns
\* a non-nil error, launches no player process and leaves currentProcs
\* empty.
C16_EmptyDirectoryStartFails ==
    (mediaPlayer.start.pc = "idle" /\ mediaPlayer.last.op = "Start"
         /\ mediaPlayer.last.found = 0) =>
        /\ mediaPlayer.last.err
        /\ mediaPlayer.last.launched = 0
        /\ mediaPlayer.currentProcs = <<>>

C18_StopIsIdempotent ==
    LET first  == Stop(mediaPlayer)
        second == Stop(first)
    IN  /\ [second EXCEPT !.last = first.last] = first
        /\ second.last.kills = 0
        /\ ~second.last.closed
        /\ ~second.panicked
        /\ mediaPlayer.last.op = "NewMediaPlayer"
               /\ mediaPlayer.start.pc = "idle" =>
               /\ [first EXCEPT !.last = mediaPlayer.last] = mediaPlayer
               /\ first.last.kills = 0
               /\ ~first.last.closed

\* a Stop returned that found the player stopped by the Stop before it, which
\* had killed a process
C18_Witness ==
    /\ mediaPlayer.last.op = "Stop"
    /\ ~mediaPlayer.last.wasRunning
    /\ ~mediaPlayer.running
    /\ mediaPlayer.start.pc = "idle"
    /\ \E p \in 1..Len(mediaPlayer.procs) :
           mediaPlayer.procs[p].state = "killed"

\* C19: for every non-empty media pool, every monitor index and every
\* content of currentlyPlaying, the playlist startPlaylistOnMonitor computes
\* is non-empty and has at least floor(pool_size / 2) entries.
C19_PlaylistNeverEmpty ==
    \A e \in mediaPlayer.playlists :
        Len(mediaPlayer.mediaFiles) >= 1 =>
            /\ e[2] # <<>>
            /\ Len(e[2]) >= Len(mediaPlayer.mediaFiles) \div 2

\* C20: among the playlists one Start() produces for M monitors from a pool
\* of P media files, no path is in the playlists of two monitors unless
\* P < M * (P / 2), the division being the integer one.
C20_NoSharedMediaAcrossMonitors ==
    \A e1, e2 \in mediaPlayer.playlists :
        (e1[1] # e2[1] /\ Range(e1[2]) \cap Range(e2[2]) # {}) =>
            Len(mediaPlayer.mediaFiles)
                < mediaPlayer.monitors * (Len(mediaPlayer.mediaFiles) \div 2)

----------------------------------------------------------------------------
(* Claims about the goroutines of an X11Locker session *)

\* C21: the session state (passwordBuf, passwordDots, the lockout state of
\* the LockoutManager, isLocked) is written only on the key-event handling
\* path: a step of the shake animation or of the lockout countdown goroutine
\* leaves all of it unchanged.
C21_SessionStateSingleWriter ==
    [][(X11ShakeEnds \/ X11TimerCheck \/ X11TimerDraw \/ X11TimerStop) =>
           UNCHANGED <<passwordBuf, passwordDots, lockoutManager, isLocked>>]_vars

----------------------------------------------------------------------------
(* Claims about the keys of a WaylandLocker session *)

\* C22: in the WaylandLocker, once the deadline of a lockout has passed
\* (now >= lockoutUntil), an Enter key press delivered to HandleKeyboardKey
\* calls authenticator.Authenticate, whether or not the countdown goroutine
\* has finished.
C22_EnterAfterDeadlineAuthenticates ==
    (/\ WlRunning
     /\ wayland.loop = "dispatch"
     /\ lockoutManager.lockoutUntil # ZeroTime
     /\ now >= lockoutManager.lockoutUntil) =>
        \A e1, e2 \in 0..MaxDrift, backendOk, libPanics \in BOOLEAN :
            WlHandleKeyboardKey(WlState, config, 28, 1, e1, e2, backendOk,
                                libPanics).auth

\* C23: when WaylandLocker.Lock() has returned nil, the media player it
\* started has been stopped (mediaPlayer.Stop() has run since the start),
\* whichever path closed done.
C23_MediaStoppedWhenLockReturns ==
    wayland.main = "returned" => ~wayland.mediaRunning

----------------------------------------------------------------------------
(* Claims about the commands and the media of a lock session *)

\* C24: in the X11Locker the post-lock command is run only once the session
\* has been unlocked, never while isLocked is true, and at most once in a
\* lock session.
C24_PostLockCommandAfterUnlock ==
    /\ ~proc.postLockLocked
    /\ proc.postLockRuns <= 1

\* C25: a failure of the pre-lock command, of the pausing of external media
\* or of mediaPlayer.Start() neither keeps Lock() from locking the session
\* nor makes it return an error: X11Locker.Lock() leaves isLocked true and
\* returns nil, and WaylandLocker.Lock(), once initWayland has succeeded,
\* holds the session lock and waits on done.
C25_LockDegradesWithoutMedia ==
    /\ proc.lockCalled => ~proc.lockErr
    /\ ev.op = "Lock" => isLocked
    /\ ~isLocked =>
           \A preLockOk, pauseOk, startOk \in BOOLEAN :
               LET s == X11LockCall(X11State, preLockOk, pauseOk, startOk) IN
               /\ s.isLocked
               /\ ~s.proc.lockErr
    /\ wayland.main = "start" =>
           \A preLockOk, pauseOk, startOk \in BOOLEAN :
               LET w == WlLockCall(wayland, preLockOk, pauseOk, TRUE, startOk) IN
               /\ w.main = "waiting"
               /\ w.lock = "live"
               /\ w.lockActive

\* Lock() has returned nil with the session locked although one of the three
\* steps had failed
C25_Witness ==
    /\ ev.op = "Lock"
    /\ ev.degraded
    /\ isLocked
    /\ proc.lockCalled
    /\ ~proc.lockErr

\* C26: when the launch of the player process of one monitor fails,
\* MediaPlayer.Start() goes on with the next monitor (and returns nil after
\* the last one), kills and removes none of the processes it has started
\* for other monitors, and adds no entry to currentProcs or currentlyPlaying
\* for the monitor that failed.
C26_SpawnFailureIsLocal ==
    [][(/\ mediaPlayer.start.pc = "launch"
        /\ mediaPlayer'.start.pc \notin {"launch", "record"}) =>
           /\ mediaPlayer'.procs = mediaPlayer.procs
           /\ mediaPlayer'.currentProcs = mediaPlayer.currentProcs
           /\ mediaPlayer'.currentlyPlaying = mediaPlayer.currentlyPlaying
           /\ mediaPlayer'.running = mediaPlayer.running
           /\ IF mediaPlayer.start.idx + 1 < mediaPlayer.monitors
              THEN /\ mediaPlayer'.start.pc = "playlist"
                   /\ mediaPlayer'.start.idx = mediaPlayer.start.idx + 1
              ELSE /\ mediaPlayer'.start.pc = "idle"
                   /\ mediaPlayer'.last.op = "Start"
                   /\ ~mediaPlayer'.last.err]_vars

\* Start returned nil after the launch for the second monitor had failed; the
\* process of the first monitor is live and in currentProcs
C26_Witness ==
    /\ mediaPlayer.start.pc = "idle"
    /\ mediaPlayer.last.op = "Start"
    /\ mediaPlayer.last.spawnFailed
    /\ ~mediaPlayer.last.err
    /\ mediaPlayer.last.launched = 1
    /\ \E i \in 1..Len(mediaPlayer.currentProcs) :
           /\ mediaPlayer.procs[mediaPlayer.currentProcs[i]].state = "live"
           /\ mediaPlayer.procs[mediaPlayer.currentProcs[i]].monitor = 0

\* C27: after the player process of a monitor has ended (by itself or
\* killed), no new process is launched for that monitor until the next
\* Start(): a monitor gains a live process only in the launch step of a
\* Start() that has reached this monitor, and the goroutine that watches a
\* process only cleans up (it changes neither currentProcs nor running).
C27_NoRestartOfEndedPlayer ==
    [][/\ \A m \in 0..MaxMonitors :
              LiveOn(mediaPlayer', m) > LiveOn(mediaPlayer, m) =>
                  /\ mediaPlayer.start.pc = "launch"
                  /\ mediaPlayer.start.idx = m
                  /\ mediaPlayer'.start.pc = "record"
       /\ Len(mediaPlayer'.procs) > Len(mediaPlayer.procs) =>
              mediaPlayer.start.pc = "launch"
       /\ (\E p \in 1..Len(mediaPlayer.procs) :
              /\ mediaPlayer.procs[p].state \in {"exited", "killed"}
              /\ mediaPlayer'.procs[p].state = "reaped") =>
              /\ mediaPlayer'.currentProcs = mediaPlayer.currentProcs
              /\ mediaPlayer'.running = mediaPlayer.running
              /\ Len(mediaPlayer'.procs) = Len(mediaPlayer.procs)]_vars

\* with no Start() in progress, the process of a monitor has ended, its
\* watcher has cleaned up, and no player process is live
C27_Witness ==
    /\ mediaPlayer.start.pc = "idle"
    /\ mediaPlayer.last.op = "Start"
    /\ \E p \in 1..Len(mediaPlayer.procs) :
           mediaPlayer.procs[p].state = "reaped"
    /\ \A m \in 0..MaxMonitors : LiveOn(mediaPlayer, m) = 0

----------------------------------------------------------------------------
(* Claims about the outcomes of an authentication *)

\* C28: two non-success AuthResults that differ only in their Message leave
\* X11Locker.authenticate in the same state (failedAttempts, lockoutActive,
\* lockoutUntil, passwordBuf, isLocked and all the rest but the logged
\* message): every non-success outcome, a failure of the PAM backend
\* included, counts as one failed attempt towards the lockout.
C28_FailuresCountAlike ==
    (isLocked /\ ~IsLockedOut(lockoutManager, now, now).result) =>
        \A e \in 0..MaxDrift, draw \in {"none", "time", "full"} :
        \A m1, m2 \in FailureMessages :
            LET after == [X11State EXCEPT
                             !.lm = IsLockedOut(lockoutManager, now, now).lm,
                             !.now = now + e]
                r1 == X11AuthResult(after, config,
                                    [Success |-> FALSE, Message |-> m1], draw)
                r2 == X11AuthResult(after, config,
                                    [Success |-> FALSE, Message |-> m2], draw)
                hf == HandleFailedAttempt(after.lm, config.DebugExit, after.now)
            IN  /\ [r1 EXCEPT !.ev.message = ""] = [r2 EXCEPT !.ev.message = ""]
                /\ r1.lm.failedAttempts = hf.lm.failedAttempts
                /\ r1.lm.lockoutActive = hf.lm.lockoutActive
                /\ r1.lm.lockoutUntil = hf.lm.lockoutUntil
                /\ r1.passwordBuf = <<>>
                /\ r1.isLocked

\* authenticate has counted a failure of the PAM backend as a failed attempt
C28_Witness ==
    /\ ev.branch = "failed"
    /\ ev.message = "Failed to start PAM transaction"
    /\ lockoutManager.failedAttempts = 1
    /\ passwordBuf = <<>>
    /\ isLocked

----------------------------------------------------------------------------
(* Claims about main *)

\* C29: when the program is started with -l or --lock and main reaches its
\* last statement, it has called locker.Lock(), whatever the configuration
\* file that was loaded contains (a "lock_screen": false entry included).
C29_LockFlagLocks ==
    (/\ program.pc = "exit"
     /\ program.flags.l
     /\ program.exit \in {"locked", "nolock"}) =>
        program.lockCalled

----------------------------------------------------------------------------
(* Claims about the log of the WaylandLocker of wayland.go *)

\* C30: no log message the WaylandLocker of src/internal/wayland.go emits
\* while it handles a key event or authenticates contains the characters of
\* the password buffer: no message has a non-empty part of the buffer
\* formatted into it.
C30_LogWithoutPassword ==
    \A i \in 1..Len(simpleLocker.log) : simpleLocker.log[i].str = <<>>

\* C31: the WaylandLocker of src/internal/wayland.go calls
\* lock.UnlockAndDestroy() only after the verification of a submitted
\* password has accepted it: the session lock is released by no timer and by
\* no other event.
C31_UnlockOnlyAfterAcceptedPassword ==
    simpleLocker.lock = "destroyed" => simpleLocker.accepted

\* C32: in the WaylandLocker that counts failures itself, while the
\* 300-second countdown started by a failure whose message contains "account
\* is locked" has seconds left, countdownActive is true, so key input is
\* ignored; this includes the case where the failure is the third one and
\* starts a 30-second lockout countdown as well.
C32_AccountLockedCountdownHolds ==
    \A k \in DOMAIN inlineLocker.countdowns :
        (inlineLocker.countdowns[k].duration = 300
            /\ inlineLocker.countdowns[k].i > 0)
        => inlineLocker.countdownActive

\* C33: if LoadConfig returns an error (the file cannot be read, is not JSON,
\* or fails validation), the Configuration main goes on with is the one it
\* had before the call: the default configuration with the flags applied.
C33_FailedLoadLeavesConfig ==
    program.loadErr # "" => program.config = program.flagged

\* C34: in WaylandLocker the channel done is closed at most once in any
\* execution: no interleaving of debug-exit key presses, the goroutine of a
\* successful authenticate, the finished event and a dispatch error calls
\* close on it a second time.
C34_DoneClosedOnce ==
    wayland.done # "reclosed"

\* C35: once a monitor's player process has ended and the goroutine that
\* waited for it has finished its cleanup, currentlyPlaying has no entry for
\* that monitor, however that goroutine and the one that asks the player
\* every second are interleaved.
C35_NoEntryAfterCleanup ==
    \A m \in 1..MaxPlaybackMonitors :
        playback.monitor[m].watcher = "done"
            => playback.monitor[m].entry = "absent"

\* C40: every temporary playlist file created by startPlaylistOnMonitor is
\* removed in the end, whether the player ends by itself, is killed by Stop,
\* or is not started because the playlist cannot be written or the process
\* cannot be started.
C40_PlaylistFileRemoved ==
    \A m \in 1..MaxPlaybackMonitors :
        (playback.monitor[m].file = "present"
            /\ (playback.monitor[m].process \in {"exited", "killed"}
                \/ playback.monitor[m].pc = "failed"))
        ~> (playback.monitor[m].file = "removed")

\* C36: when MediaPlayer.Start() has returned an error, running is false, so
\* that a later Start() scans and launches again and does not return nil as
\* for a player that is running.
C36_FailedStartNotRunning ==
    (mediaPlayer.last.op = "Start" /\ mediaPlayer.last.err)
        => ~mediaPlayer.running

\* C37: after any sequence of printable-character, BackSpace and Escape key
\* presses handled by X11Locker.handleKeyPress outside a lockout, the number
\* of password dots is min(len(passwordBuf), maxDots).
C37_DotsFollowBuffer ==
    Len(passwordDots) = Min(Len(passwordBuf), maxDots)

\* C38: in WaylandLocker the count the redraw goroutine draws when it takes
\* the last pending value from redrawCh is securePassword.Length(): if key
\* input stops there, the dots on screen show the length of the password,
\* and no update dropped by the non-blocking send leaves a stale count.
C38_LastDrawnCountIsLength ==
    [][(WlRedraw /\ wayland'.redrawCh = <<>>)
          => Head(wayland.redrawCh) = securePassword.len]_vars

\* C39: with lock_pause_media and unlock_unpause_media enabled,
\* UnpauseAllMedia on unlock sends Play only to MPRIS players that
\* PauseAllMedia paused at lock time: a player that was Paused before the
\* lock is left Paused.
C39_PlayOnlyWhatLockPaused ==
    (lockHelper.config.LockPauseMedia /\ lockHelper.config.UnlockUnpauseMedia)
        => lockHelper.played \subseteq lockHelper.paused

====
